---- MODULE Spec2Model ----
(***************************************************************************)
(* A model of the Toil leader (src/toil/leader.py): ToilState              *)
(* reconstruction, the Leader main loop with its failure handling and job  *)
(* rescue, and the ServiceManager thread.  The job store, the batch system *)
(* and the workers are the environment of the leader.                      *)
(***************************************************************************)
EXTENDS Integers, Sequences, FiniteSets, TLC

(***************************************************************************)
(* Bounds of the model.                                                    *)
(***************************************************************************)
\* largest initial remainingRetryCount of a job
MaxRetry == 1
\* number of environment faults (job failures, lost jobs, dead threads) in a run
MaxFaults == 2

(***************************************************************************)
(* Program constants.                                                      *)
(***************************************************************************)
\* default of the parameter killAfterNTimesMissing of reissueMissingJobs
killAfterNTimesMissing == 3
\* config.defaultMemory, the memory of a clean-up job (any value that no
\* job of the scenarios requests)
defaultMemory == 9

(***************************************************************************)
(* Finite maps (Python dicts).                                             *)
(***************************************************************************)
Put(f, k, v) == [x \in (DOMAIN f) \cup {k} |-> IF x = k THEN v ELSE f[x]]
Del(f, k) == [x \in (DOMAIN f) \ {k} |-> f[x]]
EmptyMap == [x \in {} |-> 0]
Last(s) == s[Len(s)]
Front(s) == SubSeq(s, 1, Len(s) - 1)
RECURSIVE SeqSum(_)
SeqSum(s) == IF s = <<>> THEN 0 ELSE Len(Head(s)) + SeqSum(Tail(s))
\* s without the first occurrence of x (list.remove)
RECURSIVE ListRemove(_, _)
ListRemove(s, x) ==
    IF s = <<>> THEN <<>>
    ELSE IF Head(s) = x THEN Tail(s) ELSE <<Head(s)>> \o ListRemove(Tail(s), x)
InList(s, x) == \E i \in 1..Len(s) : s[i] = x

(***************************************************************************)
(* Job records.  A successor tuple of the stack is <<succID, predID>>,     *)
(* predID = NoPred for a successor with a single predecessor; a service    *)
(* tuple is <<serviceID, startFlagID, terminateFlagID, errorFlagID>>.      *)
(***************************************************************************)
NoPred == 0
StartFlag(s) == 100 + s
TerminateFlag(s) == 200 + s
ErrorFlag(s) == 300 + s
Svc(s) == <<s, StartFlag(s), TerminateFlag(s), ErrorFlag(s)>>
\* the unique ID of the edge p -> s to a successor with several predecessors
Edge(p, s) == 10 * p + s

JobWrapper(cmd, ckpt, stk, svcs, predNum, retries) ==
    [command |-> cmd, checkpoint |-> ckpt, stack |-> stk, services |-> svcs,
     predecessorNumber |-> predNum, predecessorsFinished |-> {},
     remainingRetryCount |-> retries, memory |-> 1, preemptable |-> FALSE]

(***************************************************************************)
(* The workflows of the model: the job store's records at the time the     *)
(* leader is constructed.  r is the remainingRetryCount of every job.      *)
(* Job 1 is the root job; jobs 8 and 9 are service jobs.                   *)
(***************************************************************************)
RootJob == 1
ServiceJobs == {8, 9}

\* S1, a chain: 1 -> 2
Linear(r) ==
    (1 :> JobWrapper(FALSE, FALSE, << <<<<2, NoPred>>>> >>, <<>>, 1, r)) @@
    (2 :> JobWrapper(TRUE, FALSE, <<>>, <<>>, 1, r))

\* S2, a diamond: 1 -> {2, 3} -> 4, job 4 waits for both; c2 and c3 say
\* whether jobs 2 and 3 still have their command to run
Diamond(r, c2, c3) ==
    (1 :> JobWrapper(FALSE, FALSE, << <<<<2, NoPred>>, <<3, NoPred>>>> >>, <<>>, 1, r)) @@
    (2 :> JobWrapper(c2, FALSE, << <<<<4, Edge(2, 4)>>>> >>, <<>>, 1, r)) @@
    (3 :> JobWrapper(c3, FALSE, << <<<<4, Edge(3, 4)>>>> >>, <<>>, 1, r)) @@
    (4 :> JobWrapper(TRUE, FALSE, <<>>, <<>>, 2, r))

\* a diamond whose second branch has a further child: 1 -> {2, 3}, 2 -> 4,
\* 3 -> {4, 5}, job 4 waits for both; job 2 has no retry left, the other
\* jobs have one
DiamondWithSibling ==
    (1 :> JobWrapper(FALSE, FALSE, << <<<<2, NoPred>>, <<3, NoPred>>>> >>, <<>>, 1, 1)) @@
    (2 :> JobWrapper(TRUE, FALSE, << <<<<4, Edge(2, 4)>>>> >>, <<>>, 1, 0)) @@
    (3 :> JobWrapper(TRUE, FALSE, << <<<<4, Edge(3, 4)>>, <<5, NoPred>>>> >>, <<>>, 1, 1)) @@
    (4 :> JobWrapper(TRUE, FALSE, <<>>, <<>>, 2, 1)) @@
    (5 :> JobWrapper(TRUE, FALSE, <<>>, <<>>, 1, 1))

\* a join below the root: 1 -> {2, 4, 5}, 2 -> 4, job 4 waits for jobs 1 and
\* 2; no job has a retry left
JoinUnderRoot ==
    (1 :> JobWrapper(FALSE, FALSE,
                     << <<<<2, NoPred>>, <<4, Edge(1, 4)>>, <<5, NoPred>>>> >>, <<>>, 1, 0)) @@
    (2 :> JobWrapper(TRUE, FALSE, << <<<<4, Edge(2, 4)>>>> >>, <<>>, 1, 0)) @@
    (4 :> JobWrapper(TRUE, FALSE, <<>>, <<>>, 2, 0)) @@
    (5 :> JobWrapper(TRUE, FALSE, <<>>, <<>>, 1, 0))

\* S3, a fan-out: 1 -> 2 -> {3, 4}, 3 -> 5
FanOut(r) ==
    (1 :> JobWrapper(FALSE, FALSE, << <<<<2, NoPred>>>> >>, <<>>, 1, r)) @@
    (2 :> JobWrapper(TRUE, FALSE, << <<<<3, NoPred>>, <<4, NoPred>>>> >>, <<>>, 1, r)) @@
    (3 :> JobWrapper(TRUE, FALSE, << <<<<5, NoPred>>>> >>, <<>>, 1, r)) @@
    (4 :> JobWrapper(TRUE, FALSE, <<>>, <<>>, 1, r)) @@
    (5 :> JobWrapper(TRUE, FALSE, <<>>, <<>>, 1, r))

\* a job with two successor groups: child 2 (top of the stack), then follow-on 3
FollowOn(r) ==
    (1 :> JobWrapper(FALSE, FALSE, << <<<<3, NoPred>>>>, <<<<2, NoPred>>>> >>, <<>>, 1, r)) @@
    (2 :> JobWrapper(TRUE, FALSE, <<>>, <<>>, 1, r)) @@
    (3 :> JobWrapper(TRUE, FALSE, <<>>, <<>>, 1, r))

\* S4, a checkpoint job 2 that has not run yet: 1 -> 2; its command creates
\* its child
Checkpoint(r) ==
    (1 :> JobWrapper(FALSE, FALSE, << <<<<2, NoPred>>>> >>, <<>>, 1, r)) @@
    (2 :> JobWrapper(TRUE, TRUE, <<>>, <<>>, 1, r + 1))

\* the same with one retry more for the checkpoint job, which can then run,
\* be restarted and be cleaned up
CheckpointWithRetries(r) ==
    (1 :> JobWrapper(FALSE, FALSE, << <<<<2, NoPred>>>> >>, <<>>, 1, r)) @@
    (2 :> JobWrapper(TRUE, TRUE, <<>>, <<>>, 1, r + 2))

\* a checkpoint job 2 that has run and created its child 3: 1 -> 2 -> 3
CheckpointRestart(r) ==
    (1 :> JobWrapper(FALSE, FALSE, << <<<<2, NoPred>>>> >>, <<>>, 1, r)) @@
    (2 :> JobWrapper(FALSE, TRUE, << <<<<3, NoPred>>>> >>, <<>>, 1, r + 1)) @@
    (3 :> JobWrapper(TRUE, FALSE, <<>>, <<>>, 1, r))

\* S5, a job with one service and one child: 1 [service 8] -> 2
Service(r) ==
    (1 :> JobWrapper(FALSE, FALSE, << <<<<2, NoPred>>>> >>, << <<Svc(8)>> >>, 1, r)) @@
    (2 :> JobWrapper(TRUE, FALSE, <<>>, <<>>, 1, r)) @@
    (8 :> JobWrapper(TRUE, FALSE, <<>>, <<>>, 1, r))

\* a job with two service groups and no successor: 1 [service 8, then service 9]
TwoGroups(r) ==
    (1 :> JobWrapper(FALSE, FALSE, <<>>, << <<Svc(8)>>, <<Svc(9)>> >>, 1, r)) @@
    (8 :> JobWrapper(TRUE, FALSE, <<>>, <<>>, 1, r)) @@
    (9 :> JobWrapper(TRUE, FALSE, <<>>, <<>>, 1, r))

Workflows(r) ==
    {Linear(r), Diamond(r, TRUE, TRUE), Diamond(r, FALSE, FALSE), Diamond(r, TRUE, FALSE),
     FanOut(r), FollowOn(r), Checkpoint(r), CheckpointWithRetries(r),
     CheckpointRestart(r), Service(r),
     TwoGroups(r)}
    \cup {DiamondWithSibling, JoinUnderRoot}

\* the flag files of the services of a job record
FlagsOf(rec) ==
    UNION {{rec.services[g][k][2], rec.services[g][k][3], rec.services[g][k][4]} :
           <<g, k>> \in {<<g, k>> \in (1..2) \X (1..2) :
                            g <= Len(rec.services) /\ k <= Len(rec.services[g])}}

(***************************************************************************)
(* State.                                                                  *)
(***************************************************************************)
VARIABLES
    \* the job store: the job records, the files (flags) that exist, the ID
    \* of the next job that is created
    jobStore, files, nextJobID,
    \* the JobWrapper objects the leader holds, by job store ID
    mem,
    \* ToilState
    successorJobStoreIDToPredecessorJobs, successorCounts,
    serviceJobStoreIDToPredecessorJob, servicesIssued, updatedJobs,
    totalFailedJobs, hasFailedSuccessors, failedSuccessors,
    jobsToBeScheduledWithMultiplePredecessors,
    \* ToilState._buildToilState: the optional job cache and the call stack;
    \* the result of an earlier construction on the same root and job store
    useCache, jobCache, buildStack, firstBuild,
    \* Leader
    jobBatchSystemIDToIssuedJob, jobsIssued, preemptableJobsIssued,
    reissueMissingJobs_missingHash,
    \* the leader's position in run() and innerLoop(), the local updatedJobs
    \* of the iteration, the exception that ended it
    pc, localUpdatedJobs, failure,
    \* ServiceManager
    jobWrappersWithServicesBeingStarted, jobWrappersWithServicesToStart,
    jobWrappersWithServicesThatHaveStarted, serviceJobWrappersToStart,
    serviceJobsIssuedToServiceManager, terminate,
    \* the thread ServiceManager._startServices: position, job, group, index
    smPc, smJob, smGroup, smIdx,
    \* the thread's latest get on its input queue has timed out and the thread
    \* has not tested the terminate event yet
    smTimedOut,
    \* the batch system: its jobs, those it does not list, its completion
    \* events, the next ID it hands out
    bsJobs, bsHidden, bsUpdated, nextBatchID,
    \* the stats and logging thread is alive; its stop event is set
    statsAlive, stop,
    \* there is a cluster scaler (the leader has a provisioner); the calls of
    \* run() that start and shut down the auxiliaries, in their order; the
    \* thread of the cluster scaler is alive
    clusterScaler, calls, scalerAlive,
    \* the name of the class of the job store
    jobStoreClass,
    \* config.maxJobDuration
    maxJobDuration,
    \* the number of faults of the environment so far
    faults,
    \* history: the calls of processFinishedJob in the leader's latest step, as
    \* <<batch job ID, job store ID, result, what was found>>; the latest run
    \* of reissueMissingJobs; for each tracked batch job the number of runs of
    \* reissueMissingJobs that found it missing
    lastFinished, lastScan, timesMissing

toilVars == <<successorJobStoreIDToPredecessorJobs, successorCounts,
              serviceJobStoreIDToPredecessorJob, servicesIssued, updatedJobs,
              totalFailedJobs, hasFailedSuccessors, failedSuccessors,
              jobsToBeScheduledWithMultiplePredecessors>>
buildVars == <<useCache, jobCache, buildStack, firstBuild>>
NoBuild == [done |-> FALSE, updatedJobs |-> {}, successorCounts |-> <<>>]
leaderVars == <<jobBatchSystemIDToIssuedJob, jobsIssued, preemptableJobsIssued,
                reissueMissingJobs_missingHash>>
smVars == <<jobWrappersWithServicesBeingStarted, jobWrappersWithServicesToStart,
            jobWrappersWithServicesThatHaveStarted, serviceJobWrappersToStart,
            serviceJobsIssuedToServiceManager>>
smThreadVars == <<smPc, smJob, smGroup, smIdx, smTimedOut>>
bsVars == <<bsJobs, bsHidden, bsUpdated, nextBatchID>>
histVars == <<lastFinished, lastScan, timesMissing>>
auxVars == <<clusterScaler, calls, scalerAlive, jobStoreClass, maxJobDuration, stop>>
NoScan == [ran |-> FALSE, reported |-> {}, killed |-> {}]
vars == <<jobStore, files, mem, toilVars, buildVars, leaderVars, pc,
          localUpdatedJobs, failure, smVars, terminate, smThreadVars, bsVars,
          statsAlive, faults, histVars, nextJobID, auxVars>>

(***************************************************************************)
(* Construction: Leader.__init__ creates the ToilState, whose constructor  *)
(* sets the empty indices and calls _buildToilState on the root job.       *)
(***************************************************************************)
InitFor(store, cached, cache, provisioner, class, duration) ==
    /\ jobStore = store
    /\ files = UNION {FlagsOf(store[j]) : j \in DOMAIN store}
    /\ nextJobID = 1 + Cardinality((DOMAIN store) \ ServiceJobs)
    /\ mem = (RootJob :> store[RootJob])
    /\ successorJobStoreIDToPredecessorJobs = EmptyMap
    /\ successorCounts = EmptyMap
    /\ serviceJobStoreIDToPredecessorJob = EmptyMap
    /\ servicesIssued = EmptyMap
    /\ updatedJobs = {}
    /\ totalFailedJobs = {}
    /\ hasFailedSuccessors = {}
    /\ failedSuccessors = {}
    /\ jobsToBeScheduledWithMultiplePredecessors = {}
    /\ useCache = cached
    /\ jobCache = cache
    /\ buildStack = <<[job |-> RootJob, idx |-> 0]>>
    /\ firstBuild = NoBuild
    /\ jobBatchSystemIDToIssuedJob = EmptyMap
    /\ jobsIssued = 0
    /\ preemptableJobsIssued = 0
    /\ reissueMissingJobs_missingHash = EmptyMap
    /\ pc = "build"
    /\ localUpdatedJobs = {}
    /\ failure = "none"
    /\ jobWrappersWithServicesBeingStarted = {}
    /\ jobWrappersWithServicesToStart = <<>>
    /\ jobWrappersWithServicesThatHaveStarted = <<>>
    /\ serviceJobWrappersToStart = <<>>
    /\ serviceJobsIssuedToServiceManager = 0
    /\ terminate = FALSE
    /\ smPc = "new"
    /\ smJob = 0
    /\ smGroup = 0
    /\ smIdx = 0
    /\ smTimedOut = FALSE
    /\ bsJobs = EmptyMap
    /\ bsHidden = {}
    /\ bsUpdated = <<>>
    /\ nextBatchID = 1
    /\ statsAlive = FALSE
    /\ stop = FALSE
    /\ clusterScaler = provisioner
    /\ jobStoreClass = class
    /\ maxJobDuration = duration
    /\ calls = <<>>
    /\ scalerAlive = FALSE
    /\ faults = 0
    /\ lastFinished = {}
    /\ lastScan = NoScan
    /\ timesMissing = EmptyMap

\* the job caches a caller may pass: none, all records, all records but one
Caches(store) ==
    {<<FALSE, EmptyMap>>, <<TRUE, store>>} \cup
    {<<TRUE, [j \in (DOMAIN store) \ {m} |-> store[j]]>> : m \in (DOMAIN store) \ {RootJob}}

\* the leader has a provisioner or not; with one for the chain and for the
\* workflow with a service only
Provisioners(store) ==
    IF DOMAIN store \in {{1, 2}, {1, 2, 8}} /\ ~store[2].checkpoint
    THEN BOOLEAN ELSE {FALSE}

\* the job store is the AWS job store or, for the chain, another one
JobStoreClasses(store) ==
    IF DOMAIN store = {1, 2} THEN {"AWSJobStore", "FileJobStore"} ELSE {"AWSJobStore"}

\* the value of config.maxJobDuration from which reissueOverLongJobs does
\* nothing
NoMaxJobDuration == 10000000

\* config.maxJobDuration is an hour or, for the chain, also a value that
\* switches reissueOverLongJobs off
MaxJobDurations(store) ==
    IF DOMAIN store = {1, 2} THEN {3600, NoMaxJobDuration} ELSE {3600}

Init ==
    \E r \in 0..MaxRetry : \E store \in Workflows(r) : \E c \in Caches(store) :
       \E provisioner \in Provisioners(store) : \E class \in JobStoreClasses(store) :
          \E duration \in MaxJobDurations(store) :
             InitFor(store, c[1], c[2], provisioner, class, duration)

\* an exception leaves the constructor: there is no leader to run
BuildRaise(what) ==
    /\ pc' = "failed"
    /\ failure' = what
    /\ buildStack' = <<>>
    /\ useCache' = FALSE
    /\ jobCache' = EmptyMap

\* getJob(jobId): "found" with the record, or the exception it raises.  A
\* miss in a dict raises KeyError, which the except ValueError clause
\* does not catch.  The cache returns its object, which is the one the
\* leader holds if an earlier construction has taken it from the cache.
getJob(jobId) ==
    IF useCache
    THEN IF jobId \in DOMAIN jobCache
         THEN [ok |-> TRUE,
               job |-> IF jobId \in DOMAIN mem THEN mem[jobId] ELSE jobCache[jobId],
               error |-> "none"]
         ELSE [ok |-> FALSE, job |-> jobStore[RootJob], error |-> "KeyError"]
    ELSE IF jobId \in DOMAIN jobStore
         THEN [ok |-> TRUE, job |-> jobStore[jobId], error |-> "none"]
         ELSE [ok |-> FALSE, job |-> jobStore[RootJob], error |-> "NoSuchJobException"]

\* a variant of the test that does not look at the services of the job
ReadyToProcess_withoutServices(jw) ==
    \/ jw.command
    \/ jw.checkpoint
    \/ Len(jw.stack) = 0

\* the test of _buildToilState for a job that is ready to be processed
ReadyToProcess(jw) ==
    \/ jw.command
    \/ jw.checkpoint
    \/ Len(jw.services) > 0
    \/ Len(jw.stack) = 0

PopFrame ==
    /\ buildStack' = Front(buildStack)
    /\ pc' = IF Len(buildStack) = 1 THEN "start" ELSE pc
    /\ UNCHANGED <<useCache, jobCache>>

\* _buildToilState(jobWrapper) up to its loop over the successors
BuildEnter ==
    /\ pc = "build"
    /\ Last(buildStack).idx = 0
    /\ LET j == Last(buildStack).job
           jw == mem[j]
       IN IF ReadyToProcess(jw)
          THEN /\ updatedJobs' = updatedJobs \cup {<<j, 0>>}
               /\ mem' = IF jw.checkpoint
                         THEN [mem EXCEPT ![j].command = jw.checkpoint]
                         ELSE mem
               /\ PopFrame
               /\ UNCHANGED successorCounts
          ELSE /\ successorCounts' = Put(successorCounts, j, Len(Last(jw.stack)))
               /\ buildStack' = [buildStack EXCEPT ![Len(buildStack)].idx = 1]
               /\ UNCHANGED <<updatedJobs, mem, pc, useCache, jobCache>>
    /\ UNCHANGED <<jobStore, files, successorJobStoreIDToPredecessorJobs,
                   serviceJobStoreIDToPredecessorJob, servicesIssued,
                   totalFailedJobs, hasFailedSuccessors, failedSuccessors,
                   jobsToBeScheduledWithMultiplePredecessors, leaderVars,
                   localUpdatedJobs, failure, smVars, terminate, smThreadVars,
                   bsVars, statsAlive, auxVars, faults, histVars, nextJobID, firstBuild>>

\* a variant of processSuccessorWithMultiplePredecessors that records a
\* finished predecessor under three names (its ID, the ID of its edge and
\* the ID of the successor) and does not assert the bound
processSuccessorWithMultiplePredecessors_renaming(j, s, m, jp) ==
    LET pf == m[s].predecessorsFinished \cup {j, Edge(j, s), s}
        m2 == [m EXCEPT ![s].predecessorsFinished = pf]
    IN IF Cardinality(pf) = m[s].predecessorNumber
       THEN [error |-> "none", mem |-> m2, waiting |-> jp \ {s}, recurse |-> TRUE]
       ELSE [error |-> "none", mem |-> m2, waiting |-> jp, recurse |-> FALSE]

\* a variant of processSuccessorWithMultiplePredecessors that considers the
\* successor ready as soon as one predecessor has finished
processSuccessorWithMultiplePredecessors_eager(j, s, m, jp) ==
    [error |-> "none",
     mem |-> [m EXCEPT ![s].predecessorsFinished = @ \cup {j}],
     waiting |-> jp \ {s}, recurse |-> TRUE]

\* a variant of processSuccessorWithMultiplePredecessors that records a
\* predecessor it finds recorded already once more, as the edge
processSuccessorWithMultiplePredecessors_recounting(j, s, m, jp) ==
    LET pf == m[s].predecessorsFinished
                 \cup (IF j \in m[s].predecessorsFinished THEN {Edge(j, s)} ELSE {j})
        m2 == [m EXCEPT ![s].predecessorsFinished = pf]
    IN IF Cardinality(pf) > m[s].predecessorNumber
       THEN [error |-> "AssertionError:243", mem |-> m2, waiting |-> jp, recurse |-> FALSE]
       ELSE IF Cardinality(pf) = m[s].predecessorNumber
            THEN [error |-> "none", mem |-> m2, waiting |-> jp \ {s}, recurse |-> TRUE]
            ELSE [error |-> "none", mem |-> m2, waiting |-> jp, recurse |-> FALSE]

\* processSuccessorWithMultiplePredecessors(successorJobWrapper) in the call
\* of _buildToilState for job j, as the values it leaves: m and jp are the
\* objects and the cache of waiting successors before the call
processSuccessorWithMultiplePredecessors(j, s, m, jp) ==
    LET pf == m[s].predecessorsFinished \cup {j}
        m2 == [m EXCEPT ![s].predecessorsFinished = pf]
    IN IF Cardinality(pf) > m[s].predecessorNumber
       THEN [error |-> "AssertionError:243", mem |-> m2, waiting |-> jp, recurse |-> FALSE]
       ELSE IF Cardinality(pf) = m[s].predecessorNumber
            THEN [error |-> "none", mem |-> m2, waiting |-> jp \ {s}, recurse |-> TRUE]
            ELSE [error |-> "none", mem |-> m2, waiting |-> jp, recurse |-> FALSE]

\* one iteration of the loop of _buildToilState over jobWrapper.stack[-1],
\* up to the recursive call it may make
BuildSuccessor ==
    /\ pc = "build"
    /\ Last(buildStack).idx >= 1
    /\ Last(buildStack).idx <= Len(Last(mem[Last(buildStack).job].stack))
    /\ LET j == Last(buildStack).job
           i == Last(buildStack).idx
           successorJobStoreID == Last(mem[j].stack)[i][1]
           predecessorJobStoreID == Last(mem[j].stack)[i][2]
           s == successorJobStoreID
           next == [buildStack EXCEPT ![Len(buildStack)].idx = i + 1]
           call == Append(next, [job |-> s, idx |-> 0])
           preds == successorJobStoreIDToPredecessorJobs
           waiting == jobsToBeScheduledWithMultiplePredecessors
           g == getJob(s)
       IN IF s \notin DOMAIN preds
          THEN IF ~g.ok
               THEN /\ BuildRaise(g.error)
                    /\ successorJobStoreIDToPredecessorJobs' = Put(preds, s, <<j>>)
                    /\ UNCHANGED <<mem, jobsToBeScheduledWithMultiplePredecessors>>
               ELSE IF predecessorJobStoreID # NoPred
                    THEN IF s \in waiting
                         THEN /\ BuildRaise("AssertionError:271")
                              /\ successorJobStoreIDToPredecessorJobs' = Put(preds, s, <<j>>)
                              /\ UNCHANGED <<mem, jobsToBeScheduledWithMultiplePredecessors>>
                         ELSE LET p == processSuccessorWithMultiplePredecessors(
                                           j, s, Put(mem, s, g.job), waiting \cup {s})
                              IN /\ mem' = p.mem
                                 /\ jobsToBeScheduledWithMultiplePredecessors' = p.waiting
                                 /\ successorJobStoreIDToPredecessorJobs' = Put(preds, s, <<j>>)
                                 /\ IF p.error # "none"
                                    THEN BuildRaise(p.error)
                                    ELSE /\ buildStack' = IF p.recurse THEN call ELSE next
                                         /\ UNCHANGED <<pc, failure, useCache, jobCache>>
                    ELSE /\ mem' = Put(mem, s, g.job)
                         /\ successorJobStoreIDToPredecessorJobs' = Put(preds, s, <<j>>)
                         /\ buildStack' = call
                         /\ UNCHANGED <<jobsToBeScheduledWithMultiplePredecessors, pc,
                                        failure, useCache, jobCache>>
          ELSE IF InList(preds[s], j)
               THEN BuildRaise("AssertionError:286")
                    /\ UNCHANGED <<mem, successorJobStoreIDToPredecessorJobs,
                                   jobsToBeScheduledWithMultiplePredecessors>>
               ELSE /\ successorJobStoreIDToPredecessorJobs' =
                            [preds EXCEPT ![s] = Append(preds[s], j)]
                    /\ IF s \in waiting
                       THEN LET p == processSuccessorWithMultiplePredecessors(j, s, mem, waiting)
                            IN /\ mem' = p.mem
                               /\ jobsToBeScheduledWithMultiplePredecessors' = p.waiting
                               /\ IF p.error # "none"
                                  THEN BuildRaise(p.error)
                                  ELSE /\ buildStack' = IF p.recurse THEN call ELSE next
                                       /\ UNCHANGED <<pc, failure, useCache, jobCache>>
                       ELSE /\ buildStack' = next
                            /\ UNCHANGED <<mem, jobsToBeScheduledWithMultiplePredecessors,
                                           pc, failure, useCache, jobCache>>
    /\ UNCHANGED <<jobStore, files, successorCounts, serviceJobStoreIDToPredecessorJob,
                   servicesIssued, updatedJobs, totalFailedJobs, hasFailedSuccessors,
                   failedSuccessors, leaderVars, localUpdatedJobs, smVars, terminate,
                   smThreadVars, bsVars, statsAlive, auxVars, faults, histVars, nextJobID,
                   firstBuild>>

\* the loop over the successors is over: _buildToilState returns
BuildReturn ==
    /\ pc = "build"
    /\ Last(buildStack).idx >= 1
    /\ Last(buildStack).idx > Len(Last(mem[Last(buildStack).job].stack))
    /\ PopFrame
    /\ UNCHANGED <<jobStore, files, mem, toilVars, leaderVars, localUpdatedJobs, failure,
                   smVars, terminate, smThreadVars, bsVars, statsAlive, auxVars, faults, histVars,
                   nextJobID, firstBuild>>

Build == BuildEnter \/ BuildSuccessor \/ BuildReturn

\* ToilState is constructed once more with the same arguments: the root
\* JobWrapper, the job store and the job cache, whose objects are those the
\* first construction has worked on
Rebuild ==
    /\ pc = "start"
    /\ ~firstBuild.done
    /\ firstBuild' = [done |-> TRUE, updatedJobs |-> updatedJobs,
                      successorCounts |-> successorCounts]
    /\ pc' = "build"
    /\ buildStack' = <<[job |-> RootJob, idx |-> 0]>>
    /\ mem' = IF useCache THEN mem ELSE (RootJob :> mem[RootJob])
    /\ successorJobStoreIDToPredecessorJobs' = EmptyMap
    /\ successorCounts' = EmptyMap
    /\ serviceJobStoreIDToPredecessorJob' = EmptyMap
    /\ servicesIssued' = EmptyMap
    /\ updatedJobs' = {}
    /\ totalFailedJobs' = {}
    /\ hasFailedSuccessors' = {}
    /\ failedSuccessors' = {}
    /\ jobsToBeScheduledWithMultiplePredecessors' = {}
    /\ UNCHANGED <<jobStore, files, useCache, jobCache, leaderVars, localUpdatedJobs,
                   failure, smVars, terminate, smThreadVars, bsVars, statsAlive, auxVars, faults,
                   histVars, nextJobID>>

(***************************************************************************)
(* The methods of the leader, as functions of the state they read and      *)
(* write.  S is a record of the values of the variables; S.err names the   *)
(* exception that is propagating, and a method does nothing once one is.   *)
(***************************************************************************)
Here ==
    [store |-> jobStore, files |-> files, mem |-> mem,
     preds |-> successorJobStoreIDToPredecessorJobs, counts |-> successorCounts,
     svcPred |-> serviceJobStoreIDToPredecessorJob, svcIssued |-> servicesIssued,
     updated |-> updatedJobs, totalFailed |-> totalFailedJobs,
     hasFailed |-> hasFailedSuccessors, failedSucc |-> failedSuccessors,
     waiting |-> jobsToBeScheduledWithMultiplePredecessors,
     issued |-> jobBatchSystemIDToIssuedJob, jobsIssued |-> jobsIssued,
     preempt |-> preemptableJobsIssued, missing |-> reissueMissingJobs_missingHash,
     being |-> jobWrappersWithServicesBeingStarted,
     toStart |-> jobWrappersWithServicesToStart,
     smCount |-> serviceJobsIssuedToServiceManager,
     bs |-> bsJobs, hidden |-> bsHidden, nextID |-> nextBatchID,
     storeClass |-> jobStoreClass, err |-> "none", finished |-> {}, killed |-> {}]

Becomes(S) ==
    /\ jobStore' = S.store
    /\ files' = S.files
    /\ mem' = S.mem
    /\ successorJobStoreIDToPredecessorJobs' = S.preds
    /\ successorCounts' = S.counts
    /\ serviceJobStoreIDToPredecessorJob' = S.svcPred
    /\ servicesIssued' = S.svcIssued
    /\ updatedJobs' = S.updated
    /\ totalFailedJobs' = S.totalFailed
    /\ hasFailedSuccessors' = S.hasFailed
    /\ failedSuccessors' = S.failedSucc
    /\ jobsToBeScheduledWithMultiplePredecessors' = S.waiting
    /\ jobBatchSystemIDToIssuedJob' = S.issued
    /\ jobsIssued' = S.jobsIssued
    /\ preemptableJobsIssued' = S.preempt
    /\ reissueMissingJobs_missingHash' = S.missing
    /\ jobWrappersWithServicesBeingStarted' = S.being
    /\ jobWrappersWithServicesToStart' = S.toStart
    /\ serviceJobsIssuedToServiceManager' = S.smCount
    /\ bsJobs' = S.bs
    /\ bsHidden' = S.hidden
    /\ nextBatchID' = S.nextID
    /\ failure' = S.err

Raise(S, what) == [S EXCEPT !.err = what]

\* a variant of issueJob that hands the job to the batch system twice
issueJob_twice(S, jobStoreID, memory, preemptable) ==
    IF S.err # "none" THEN S
    ELSE LET issued == [jobStoreID |-> jobStoreID, memory |-> memory,
                        preemptable |-> preemptable]
         IN [S EXCEPT
               !.jobsIssued = @ + 2,
               !.preempt = IF preemptable THEN @ + 2 ELSE @,
               !.nextID = @ + 2,
               !.bs = Put(Put(@, S.nextID, jobStoreID), S.nextID + 1, jobStoreID),
               !.issued = Put(Put(@, S.nextID, issued), S.nextID + 1, issued)]

\* Leader.issueJob: the batch system hands out the next batch job ID
issueJob(S, jobStoreID, memory, preemptable) ==
    IF S.err # "none" THEN S
    ELSE [S EXCEPT
            !.jobsIssued = @ + 1,
            !.preempt = IF preemptable THEN @ + 1 ELSE @,
            !.nextID = @ + 1,
            !.bs = Put(@, S.nextID, jobStoreID),
            !.issued = Put(@, S.nextID,
                           [jobStoreID |-> jobStoreID, memory |-> memory,
                            preemptable |-> preemptable])]

\* Leader.issueJobs: jobs is a list of <<jobStoreID, memory, preemptable>>
RECURSIVE issueJobs(_, _)
issueJobs(S, jobs) ==
    IF jobs = <<>> THEN S
    ELSE issueJobs(issueJob(S, Head(jobs)[1], Head(jobs)[2], Head(jobs)[3]), Tail(jobs))

\* Leader.getNumberOfJobsIssued(): the number it returns, or the assertion
\* that fails
getNumberOfJobsIssued(S) ==
    IF S.jobsIssued >= 0 /\ S.preempt >= 0
    THEN [err |-> "none", result |-> S.jobsIssued]
    ELSE [err |-> "AssertionError:924"]

\* a variant of removeJobID that forgets the job without counting it
removeJobID_uncounted(S, jobBatchSystemID) ==
    IF S.err # "none" THEN S
    ELSE IF jobBatchSystemID \notin DOMAIN S.issued THEN Raise(S, "AssertionError:954")
    ELSE [S EXCEPT !.issued = Del(@, jobBatchSystemID)]

\* a variant of removeJobID that counts the job and leaves its entry in the
\* map of the issued jobs
removeJobID_keepingEntry(S, jobBatchSystemID) ==
    IF S.err # "none" THEN S
    ELSE IF jobBatchSystemID \notin DOMAIN S.issued THEN Raise(S, "AssertionError:954")
    ELSE [S EXCEPT
            !.jobsIssued = @ - 1,
            !.preempt = IF S.issued[jobBatchSystemID].preemptable THEN @ - 1 ELSE @]

\* Leader.removeJobID
removeJobID(S, jobBatchSystemID) ==
    IF S.err # "none" THEN S
    ELSE IF jobBatchSystemID \notin DOMAIN S.issued THEN Raise(S, "AssertionError:954")
    ELSE IF S.issued[jobBatchSystemID].preemptable /\ S.preempt <= 0
         THEN Raise([S EXCEPT !.jobsIssued = @ - 1], "AssertionError:957")
    ELSE [S EXCEPT
            !.jobsIssued = @ - 1,
            !.preempt = IF S.issued[jobBatchSystemID].preemptable THEN @ - 1 ELSE @,
            !.issued = Del(@, jobBatchSystemID)]

\* a variant of killServices that deletes the error flags in any case
killServices_withError(S, services, error) ==
    IF S.err # "none" THEN S
    ELSE [S EXCEPT !.files =
            (@ \ {services[x][2] : x \in DOMAIN services})
               \ {services[x][3] : x \in DOMAIN services}]

\* ServiceManager.killServices
killServices(S, services, error) ==
    IF S.err # "none" THEN S
    ELSE [S EXCEPT !.files =
            (@ \ {services[x][2] : x \in DOMAIN services})
               \ (IF error THEN {services[x][3] : x \in DOMAIN services} ELSE {})]

\* a variant of scheduleServices that does not count the job itself
scheduleServices_withoutTheJob(S, j) ==
    IF S.err # "none" THEN S
    ELSE [S EXCEPT !.being = @ \cup {j},
                   !.smCount = @ + SeqSum(S.mem[j].services),
                   !.toStart = Append(@, j)]

\* ServiceManager.scheduleServices
scheduleServices(S, j) ==
    IF S.err # "none" THEN S
    ELSE [S EXCEPT !.being = @ \cup {j},
                   !.smCount = @ + SeqSum(S.mem[j].services) + 1,
                   !.toStart = Append(@, j)]

\* a variant of that loop that leaves a count that reached zero in
\* successorCounts
RECURSIVE UpdatePredecessors_keepingZero(_, _)
UpdatePredecessors_keepingZero(S, predecessors) ==
    IF S.err # "none" \/ predecessors = <<>> THEN S
    ELSE LET p == Head(predecessors)
         IN IF p \notin DOMAIN S.counts THEN Raise(S, "KeyError:1232")
            ELSE IF S.counts[p] - 1 = 0
                 THEN IF S.mem[p].stack = <<>>
                      THEN Raise([S EXCEPT !.counts = Del(@, p)], "IndexError:1241")
                      ELSE UpdatePredecessors_keepingZero(
                               [S EXCEPT !.counts[p] = 0,
                                         !.mem[p].stack = Front(@),
                                         !.updated = @ \cup {<<p, 0>>}],
                               Tail(predecessors))
                 ELSE UpdatePredecessors_keepingZero([S EXCEPT !.counts[p] = @ - 1],
                                                    Tail(predecessors))

\* a variant of that loop that re-enqueues a predecessor at every finished
\* successor
RECURSIVE UpdatePredecessors_eager(_, _)
UpdatePredecessors_eager(S, predecessors) ==
    IF S.err # "none" \/ predecessors = <<>> THEN S
    ELSE LET p == Head(predecessors)
         IN IF p \notin DOMAIN S.counts THEN Raise(S, "KeyError:1232")
            ELSE IF S.counts[p] - 1 = 0
                 THEN IF S.mem[p].stack = <<>>
                      THEN Raise([S EXCEPT !.counts = Del(@, p)], "IndexError:1241")
                      ELSE UpdatePredecessors_eager(
                               [S EXCEPT !.counts = Del(@, p),
                                         !.mem[p].stack = Front(@),
                                         !.updated = @ \cup {<<p, 0>>}],
                               Tail(predecessors))
                 ELSE UpdatePredecessors_eager(
                          [S EXCEPT !.counts[p] = @ - 1,
                                    !.updated = @ \cup {<<p, 0>>}],
                          Tail(predecessors))

\* Leader._updatePredecessorStatus, the loop over the predecessors of a
\* finished successor
RECURSIVE UpdatePredecessors(_, _)
UpdatePredecessors(S, predecessors) ==
    IF S.err # "none" \/ predecessors = <<>> THEN S
    ELSE LET p == Head(predecessors)
         IN IF p \notin DOMAIN S.counts THEN Raise(S, "KeyError:1232")
            ELSE IF S.counts[p] - 1 = 0
                 THEN IF S.mem[p].stack = <<>>
                      THEN Raise([S EXCEPT !.counts = Del(@, p)], "IndexError:1241")
                      ELSE UpdatePredecessors(
                               [S EXCEPT !.counts = Del(@, p),
                                         !.mem[p].stack = Front(@),
                                         !.updated = @ \cup {<<p, 0>>}],
                               Tail(predecessors))
                 ELSE UpdatePredecessors([S EXCEPT !.counts[p] = @ - 1],
                                         Tail(predecessors))

\* a variant of _updatePredecessorStatus that forgets the predecessors of a
\* finished successor: their counts of pending successors stay
updatePredecessorStatus_forgetful(S, jobStoreID) ==
    IF S.err # "none" THEN S
    ELSE [S EXCEPT !.svcPred = [x \in (DOMAIN @) \ {jobStoreID} |-> @[x]],
                   !.preds = [x \in (DOMAIN @) \ {jobStoreID} |-> @[x]]]

\* a variant of _updatePredecessorStatus that takes a service job whose
\* predecessor has gone for a root job
updatePredecessorStatus_serviceAsRoot(S, jobStoreID) ==
    IF S.err # "none" THEN S
    ELSE IF jobStoreID \in DOMAIN S.svcPred /\ jobStoreID \in DOMAIN S.preds
    THEN LET predecessorJob == S.svcPred[jobStoreID]
             S1 == [S EXCEPT !.svcPred = Del(@, jobStoreID)]
         IN IF predecessorJob \notin DOMAIN S1.svcIssued
               \/ jobStoreID \notin DOMAIN S1.svcIssued[predecessorJob]
            THEN Raise(S1, "KeyError:1208")
            ELSE IF DOMAIN S1.svcIssued[predecessorJob] = {jobStoreID}
                 THEN [S1 EXCEPT !.svcIssued = Del(@, predecessorJob),
                                 !.updated = @ \cup {<<predecessorJob, 0>>}]
                 ELSE [S1 EXCEPT !.svcIssued[predecessorJob] = Del(@, jobStoreID)]
    ELSE IF jobStoreID \notin DOMAIN S.preds
    THEN IF S.updated # {} THEN Raise(S, "AssertionError:1218")
         ELSE IF DOMAIN S.preds # {} THEN Raise(S, "AssertionError:1219")
         ELSE IF DOMAIN S.counts # {} THEN Raise(S, "AssertionError:1220")
         ELSE S
    ELSE UpdatePredecessors([S EXCEPT !.preds = Del(@, jobStoreID)],
                            S.preds[jobStoreID])

\* a variant of _updatePredecessorStatus that keeps the key of a job in
\* servicesIssued when its last service has gone
updatePredecessorStatus_keepingOwner(S, jobStoreID) ==
    IF S.err # "none" THEN S
    ELSE IF jobStoreID \in DOMAIN S.svcPred
    THEN LET predecessorJob == S.svcPred[jobStoreID]
             S1 == [S EXCEPT !.svcPred = Del(@, jobStoreID)]
         IN IF predecessorJob \notin DOMAIN S1.svcIssued
               \/ jobStoreID \notin DOMAIN S1.svcIssued[predecessorJob]
            THEN Raise(S1, "KeyError:1208")
            ELSE IF DOMAIN S1.svcIssued[predecessorJob] = {jobStoreID}
                 THEN [S1 EXCEPT !.svcIssued[predecessorJob] = Del(@, jobStoreID),
                                 !.updated = @ \cup {<<predecessorJob, 0>>}]
                 ELSE [S1 EXCEPT !.svcIssued[predecessorJob] = Del(@, jobStoreID)]
    ELSE IF jobStoreID \notin DOMAIN S.preds
    THEN IF S.updated # {} THEN Raise(S, "AssertionError:1218")
         ELSE IF DOMAIN S.preds # {} THEN Raise(S, "AssertionError:1219")
         ELSE IF DOMAIN S.counts # {} THEN Raise(S, "AssertionError:1220")
         ELSE S
    ELSE UpdatePredecessors([S EXCEPT !.preds = Del(@, jobStoreID)],
                            S.preds[jobStoreID])

\* Leader._updatePredecessorStatus
updatePredecessorStatus(S, jobStoreID) ==
    IF S.err # "none" THEN S
    ELSE IF jobStoreID \in DOMAIN S.svcPred
    THEN LET predecessorJob == S.svcPred[jobStoreID]
             S1 == [S EXCEPT !.svcPred = Del(@, jobStoreID)]
         IN IF predecessorJob \notin DOMAIN S1.svcIssued
               \/ jobStoreID \notin DOMAIN S1.svcIssued[predecessorJob]
            THEN Raise(S1, "KeyError:1208")
            ELSE IF DOMAIN S1.svcIssued[predecessorJob] = {jobStoreID}
                 THEN [S1 EXCEPT !.svcIssued = Del(@, predecessorJob),
                                 !.updated = @ \cup {<<predecessorJob, 0>>}]
                 ELSE [S1 EXCEPT !.svcIssued[predecessorJob] = Del(@, jobStoreID)]
    ELSE IF jobStoreID \notin DOMAIN S.preds
    THEN IF S.updated # {} THEN Raise(S, "AssertionError:1218")
         ELSE IF DOMAIN S.preds # {} THEN Raise(S, "AssertionError:1219")
         ELSE IF DOMAIN S.counts # {} THEN Raise(S, "AssertionError:1220")
         ELSE S
    ELSE UpdatePredecessors([S EXCEPT !.preds = Del(@, jobStoreID)],
                            S.preds[jobStoreID])

\* the successor IDs of all groups of a stack, in the order of the loops
RECURSIVE StackIDs(_)
StackIDs(stk) ==
    IF stk = <<>> THEN <<>>
    ELSE [i \in 1..Len(Head(stk)) |-> Head(stk)[i][1]] \o StackIDs(Tail(stk))

\* the answers jobStore.exists(jobStoreID) can give: True for a job of the
\* store; for a job that is gone False, or True when the job store still
\* lists it (the read is stale)
exists(store, jobStoreID) ==
    IF jobStoreID \in DOMAIN store THEN {TRUE} ELSE BOOLEAN

\* Leader.getSuccessors.successorRecursion over the successor IDs todo:
\* acc.successors is the set being built, acc.seen is alreadySeenSuccessors,
\* acc.err the exception that has left the walk.  The results are the ones
\* the answers of jobStore.exists allow: jobStore.load raises for a job that
\* is gone.
RECURSIVE successorRecursion(_, _, _)
successorRecursion(todo, acc, store) ==
    IF acc.err # "none" \/ todo = <<>> THEN {acc}
    ELSE LET successorJobStoreID == Head(todo)
         IN IF successorJobStoreID \in acc.seen
            THEN successorRecursion(Tail(todo), acc, store)
            ELSE LET acc1 == [acc EXCEPT
                                 !.successors = @ \cup {successorJobStoreID},
                                 !.seen = @ \cup {successorJobStoreID}]
                     below(answer) ==
                         IF ~answer THEN {acc1}
                         ELSE IF successorJobStoreID \notin DOMAIN store
                         THEN {[acc1 EXCEPT !.err = "NoSuchJobException:1115"]}
                         ELSE successorRecursion(
                                  StackIDs(store[successorJobStoreID].stack), acc1, store)
                 IN UNION {successorRecursion(Tail(todo), acc2, store) :
                             acc2 \in UNION {below(answer) :
                                                answer \in exists(store, successorJobStoreID)}}

\* a variant of the walk that does not ignore the successors already seen
getSuccessors_revisiting(jobWrapper, alreadySeenSuccessors, store) ==
    {[found EXCEPT !.seen = alreadySeenSuccessors \cup @] :
        found \in successorRecursion(StackIDs(jobWrapper.stack),
                                     [successors |-> {}, seen |-> {}, err |-> "none"],
                                     store)}

\* Leader.getSuccessors: the successors found and alreadySeenSuccessors
\* after, for each way the walk can go
getSuccessors(jobWrapper, alreadySeenSuccessors, store) ==
    successorRecursion(StackIDs(jobWrapper.stack),
                       [successors |-> {}, seen |-> alreadySeenSuccessors,
                        err |-> "none"],
                       store)

\* a variant of the loop over the predecessors of a tainted successor that
\* marks them and leaves their counts
RECURSIVE FailPredecessors_withoutDecrement(_, _)
FailPredecessors_withoutDecrement(S, predecessors) ==
    IF S.err # "none" \/ predecessors = <<>> THEN S
    ELSE FailPredecessors_withoutDecrement(
             [S EXCEPT !.hasFailed = @ \cup {Head(predecessors)}], Tail(predecessors))

\* Leader.processTotallyFailedJob, the loop over the predecessors of a newly
\* found failed successor
RECURSIVE FailPredecessors(_, _)
FailPredecessors(S, predecessors) ==
    IF S.err # "none" \/ predecessors = <<>> THEN S
    ELSE LET p == Head(predecessors)
         IN IF p \notin DOMAIN S.counts THEN Raise(S, "KeyError:1175")
            ELSE IF S.counts[p] - 1 < 0
            THEN Raise([S EXCEPT !.counts[p] = @ - 1, !.hasFailed = @ \cup {p}],
                       "AssertionError:1182")
            ELSE IF S.counts[p] - 1 = 0
                 THEN FailPredecessors(
                          [S EXCEPT !.hasFailed = @ \cup {p},
                                    !.updated = @ \cup {<<p, 0>>},
                                    !.counts = Del(@, p)],
                          Tail(predecessors))
                 ELSE FailPredecessors(
                          [S EXCEPT !.hasFailed = @ \cup {p}, !.counts[p] = @ - 1],
                          Tail(predecessors))

\* Leader.processTotallyFailedJob, the body of the loop over
\* unseenSuccessors
FailSuccessor(S, successorJobStoreID) ==
    IF successorJobStoreID \in DOMAIN S.preds
    THEN FailPredecessors([S EXCEPT !.preds = Del(@, successorJobStoreID)],
                          S.preds[successorJobStoreID])
    ELSE S

\* Leader.processTotallyFailedJob, the loop over unseenSuccessors, a set of
\* strings: the results of the orders in which it can be iterated
RECURSIVE FailSuccessors(_, _)
FailSuccessors(S, unseenSuccessors) ==
    IF S.err # "none" \/ unseenSuccessors = {} THEN {S}
    ELSE UNION {FailSuccessors(FailSuccessor(S, successorJobStoreID),
                               unseenSuccessors \ {successorJobStoreID}) :
                   successorJobStoreID \in unseenSuccessors}

SeqToSet(q) == {q[i] : i \in 1..Len(q)}

\* a variant of processTotallyFailedJob that updates the direct
\* predecessors of the job without marking them
processTotallyFailedJob_unmarked(S, j) ==
    IF S.err # "none" THEN {S}
    ELSE
    LET S0 == [S EXCEPT !.totalFailed = @ \cup {j}]
    IN IF j \in DOMAIN S0.svcPred
       THEN LET predecessorJobWrapper == S0.svcPred[j]
                S1 == updatePredecessorStatus(S0, j)
                S2 == IF S1.err # "none" THEN S1
                      ELSE [S1 EXCEPT !.files = @ \ {StartFlag(j)}]
            IN {IF predecessorJobWrapper \in DOMAIN S2.svcIssued
                THEN killServices(S2, S2.svcIssued[predecessorJobWrapper], TRUE)
                ELSE S2}
       ELSE IF j \in DOMAIN S0.svcIssued THEN {Raise(S0, "AssertionError:1154")}
       ELSE LET afterWalk(found) ==
                    IF found.err # "none"
                    THEN {Raise([S0 EXCEPT !.failedSucc = found.seen], found.err)}
                    ELSE FailSuccessors([S0 EXCEPT !.failedSucc = found.seen],
                                        found.successors)
                afterLoop(S1) ==
                    {IF S1.err # "none" THEN S1
                     ELSE IF j \in DOMAIN S1.preds
                          THEN updatePredecessorStatus(S1, j)
                          ELSE S1}
            IN UNION {afterLoop(S1) :
                        S1 \in UNION {afterWalk(found) :
                                         found \in getSuccessors(S0.mem[j], S0.failedSucc,
                                                                 S0.store)}}

\* a variant of processTotallyFailedJob that leaves the start flag of a
\* failed service job
processTotallyFailedJob_keepingStartFlag(S, j) ==
    IF S.err # "none" THEN {S}
    ELSE
    LET S0 == [S EXCEPT !.totalFailed = @ \cup {j}]
    IN IF j \in DOMAIN S0.svcPred
       THEN LET predecessorJobWrapper == S0.svcPred[j]
                S1 == updatePredecessorStatus(S0, j)
                S2 == S1
                S3 == IF predecessorJobWrapper \in DOMAIN S2.svcIssued
                      THEN killServices(S2, S2.svcIssued[predecessorJobWrapper], TRUE)
                      ELSE S2
            IN {IF S3.err # "none" THEN S3
                ELSE [S3 EXCEPT !.hasFailed = @ \cup {predecessorJobWrapper}]}
       ELSE IF j \in DOMAIN S0.svcIssued THEN {Raise(S0, "AssertionError:1154")}
       ELSE LET afterWalk(found) ==
                    IF found.err # "none"
                    THEN {Raise([S0 EXCEPT !.failedSucc = found.seen], found.err)}
                    ELSE FailSuccessors([S0 EXCEPT !.failedSucc = found.seen],
                                        found.successors)
                afterLoop(S1) ==
                    {IF S1.err # "none" THEN S1
                     ELSE IF j \in DOMAIN S1.preds
                          THEN updatePredecessorStatus(
                             [S1 EXCEPT !.hasFailed = @ \cup SeqToSet(S1.preds[j])], j)
                          ELSE S1}
            IN UNION {afterLoop(S1) :
                        S1 \in UNION {afterWalk(found) :
                                         found \in getSuccessors(S0.mem[j], S0.failedSucc,
                                                                 S0.store)}}

\* a variant of processTotallyFailedJob that queues the failed job again
processTotallyFailedJob_requeueing(S, j) ==
    IF S.err # "none" THEN {S}
    ELSE
    LET S0 == [S EXCEPT !.totalFailed = @ \cup {j}, !.updated = @ \cup {<<j, 1>>}]
    IN IF j \in DOMAIN S0.svcPred
       THEN LET predecessorJobWrapper == S0.svcPred[j]
                S1 == updatePredecessorStatus(S0, j)
                S2 == IF S1.err # "none" THEN S1
                      ELSE [S1 EXCEPT !.files = @ \ {StartFlag(j)}]
                S3 == IF predecessorJobWrapper \in DOMAIN S2.svcIssued
                      THEN killServices(S2, S2.svcIssued[predecessorJobWrapper], TRUE)
                      ELSE S2
            IN {IF S3.err # "none" THEN S3
                ELSE [S3 EXCEPT !.hasFailed = @ \cup {predecessorJobWrapper}]}
       ELSE IF j \in DOMAIN S0.svcIssued THEN {Raise(S0, "AssertionError:1154")}
       ELSE LET afterWalk(found) ==
                    IF found.err # "none"
                    THEN {Raise([S0 EXCEPT !.failedSucc = found.seen], found.err)}
                    ELSE FailSuccessors([S0 EXCEPT !.failedSucc = found.seen],
                                        found.successors)
                afterLoop(S1) ==
                    {IF S1.err # "none" THEN S1
                     ELSE IF j \in DOMAIN S1.preds
                          THEN updatePredecessorStatus(
                             [S1 EXCEPT !.hasFailed = @ \cup SeqToSet(S1.preds[j])], j)
                          ELSE S1}
            IN UNION {afterLoop(S1) :
                        S1 \in UNION {afterWalk(found) :
                                         found \in getSuccessors(S0.mem[j], S0.failedSucc,
                                                                 S0.store)}}

\* Leader.processTotallyFailedJob
processTotallyFailedJob(S, j) ==
    IF S.err # "none" THEN {S}
    ELSE
    LET S0 == [S EXCEPT !.totalFailed = @ \cup {j}]
    IN IF j \in DOMAIN S0.svcPred
       THEN LET predecessorJobWrapper == S0.svcPred[j]
                S1 == updatePredecessorStatus(S0, j)
                S2 == IF S1.err # "none" THEN S1
                      ELSE [S1 EXCEPT !.files = @ \ {StartFlag(j)}]
                S3 == IF predecessorJobWrapper \in DOMAIN S2.svcIssued
                      THEN killServices(S2, S2.svcIssued[predecessorJobWrapper], TRUE)
                      ELSE S2
            IN {IF S3.err # "none" THEN S3
                ELSE [S3 EXCEPT !.hasFailed = @ \cup {predecessorJobWrapper}]}
       ELSE IF j \in DOMAIN S0.svcIssued THEN {Raise(S0, "AssertionError:1154")}
       ELSE LET afterWalk(found) ==
                    IF found.err # "none"
                    THEN {Raise([S0 EXCEPT !.failedSucc = found.seen], found.err)}
                    ELSE FailSuccessors([S0 EXCEPT !.failedSucc = found.seen],
                                        found.successors)
                afterLoop(S1) ==
                    {IF S1.err # "none" THEN S1
                     ELSE IF j \in DOMAIN S1.preds
                          THEN updatePredecessorStatus(
                             [S1 EXCEPT !.hasFailed = @ \cup SeqToSet(S1.preds[j])], j)
                          ELSE S1}
            IN UNION {afterLoop(S1) :
                        S1 \in UNION {afterWalk(found) :
                                         found \in getSuccessors(S0.mem[j], S0.failedSucc,
                                                                 S0.store)}}

\* JobWrapper.setupJobAfterFailure: one retry less
setupJobAfterFailure(jw) ==
    [jw EXCEPT !.remainingRetryCount = IF @ > 0 THEN @ - 1 ELSE 0]

\* a variant of processFinishedJob that declares a ghost job failed for good
processFinishedJob_ghostFails(S, jobBatchSystemID, resultStatus, stale) ==
    IF S.err # "none" THEN S
    ELSE
    LET S1 == removeJobID(S, jobBatchSystemID)
    IN IF S1.err # "none" THEN S1
       ELSE
       LET jobStoreID == S.issued[jobBatchSystemID].jobStoreID
           note(how) == <<jobBatchSystemID, jobStoreID, resultStatus, how>>
       IN IF jobStoreID \in DOMAIN S1.store
          THEN LET loaded == S1.store[jobStoreID]
                   jobWrapper == IF resultStatus # 0
                                 THEN setupJobAfterFailure(loaded) ELSE loaded
               IN [S1 EXCEPT
                     !.mem = Put(@, jobStoreID, jobWrapper),
                     !.store = IF resultStatus # 0
                               THEN Put(@, jobStoreID, jobWrapper) ELSE @,
                     !.hasFailed = IF resultStatus = 0 THEN @ \ {jobStoreID} ELSE @,
                     !.updated = @ \cup {<<jobStoreID, resultStatus>>},
                     !.finished = @ \cup {note("reloaded")}]
          ELSE IF stale /\ S1.storeClass # "AWSJobStore"
          THEN Raise([S1 EXCEPT !.finished = @ \cup {note("ghost")}],
                     "NoSuchJobException:1044")
          ELSE LET S2 == updatePredecessorStatus(S1, jobStoreID)
               IN [S2 EXCEPT
                     !.totalFailed = IF stale THEN @ \cup {jobStoreID} ELSE @,
                     !.finished = @ \cup {note(IF stale THEN "ghost" ELSE "removed")}]

\* a variant that leaves a job that finished with result 0 in
\* hasFailedSuccessors
processFinishedJob_keepingFlag(S, jobBatchSystemID, resultStatus, stale) ==
    IF S.err # "none" THEN S
    ELSE
    LET S1 == removeJobID(S, jobBatchSystemID)
    IN IF S1.err # "none" THEN S1
       ELSE
       LET jobStoreID == S.issued[jobBatchSystemID].jobStoreID
           note(how) == <<jobBatchSystemID, jobStoreID, resultStatus, how>>
       IN IF jobStoreID \in DOMAIN S1.store
          THEN LET loaded == S1.store[jobStoreID]
                   jobWrapper == IF resultStatus # 0
                                 THEN setupJobAfterFailure(loaded) ELSE loaded
               IN [S1 EXCEPT
                     !.mem = Put(@, jobStoreID, jobWrapper),
                     !.store = IF resultStatus # 0
                               THEN Put(@, jobStoreID, jobWrapper) ELSE @,
                     !.updated = @ \cup {<<jobStoreID, resultStatus>>},
                     !.finished = @ \cup {note("reloaded")}]
          ELSE IF stale /\ S1.storeClass # "AWSJobStore"
          THEN Raise([S1 EXCEPT !.finished = @ \cup {note("ghost")}],
                     "NoSuchJobException:1044")
          ELSE LET S2 == updatePredecessorStatus(S1, jobStoreID)
               IN [S2 EXCEPT !.finished =
                       @ \cup {note(IF stale THEN "ghost" ELSE "removed")}]

\* Leader.processFinishedJob, wallTime = None.  stale: jobStore.exists
\* answers True for a job that is gone (a stale read of the AWS job store),
\* and the load then raises NoSuchJobException.
processFinishedJob(S, jobBatchSystemID, resultStatus, stale) ==
    IF S.err # "none" THEN S
    ELSE
    LET S1 == removeJobID(S, jobBatchSystemID)
    IN IF S1.err # "none" THEN S1
       ELSE
       LET jobStoreID == S.issued[jobBatchSystemID].jobStoreID
           note(how) == <<jobBatchSystemID, jobStoreID, resultStatus, how>>
       IN IF jobStoreID \in DOMAIN S1.store
          THEN LET loaded == S1.store[jobStoreID]
                   jobWrapper == IF resultStatus # 0
                                 THEN setupJobAfterFailure(loaded) ELSE loaded
               IN [S1 EXCEPT
                     !.mem = Put(@, jobStoreID, jobWrapper),
                     !.store = IF resultStatus # 0
                               THEN Put(@, jobStoreID, jobWrapper) ELSE @,
                     !.hasFailed = IF resultStatus = 0 THEN @ \ {jobStoreID} ELSE @,
                     !.updated = @ \cup {<<jobStoreID, resultStatus>>},
                     !.finished = @ \cup {note("reloaded")}]
          ELSE IF stale /\ S1.storeClass # "AWSJobStore"
          THEN Raise([S1 EXCEPT !.finished = @ \cup {note("ghost")}],
                     "NoSuchJobException:1044")
          ELSE LET S2 == updatePredecessorStatus(S1, jobStoreID)
               IN [S2 EXCEPT !.finished =
                       @ \cup {note(IF stale THEN "ghost" ELSE "removed")}]

\* innerLoop, the job has services to start: the loop that registers them
RECURSIVE RegisterServices(_, _, _)
RegisterServices(S, j, serviceTuples) ==
    IF S.err # "none" \/ serviceTuples = <<>> THEN S
    ELSE LET serviceTuple == Head(serviceTuples)
             serviceID == serviceTuple[1]
         IN IF serviceID \in DOMAIN S.svcPred THEN Raise(S, "AssertionError:705")
            ELSE RegisterServices(
                     [S EXCEPT !.svcPred = Put(@, serviceID, j),
                               !.svcIssued[j] = Put(@, serviceID,
                                   <<serviceTuple[2], serviceTuple[3], serviceTuple[4]>>)],
                     j, Tail(serviceTuples))

RECURSIVE Flatten(_)
Flatten(groups) == IF groups = <<>> THEN <<>> ELSE Head(groups) \o Flatten(Tail(groups))

\* a variant of that loop that does not look at failedSuccessors
RECURSIVE ScheduleSuccessors_ignoringFailed(_, _, _, _)
ScheduleSuccessors_ignoringFailed(S, j, tuples, successors) ==
    IF S.err # "none" \/ tuples = <<>> THEN [state |-> S, toIssue |-> successors]
    ELSE
    LET successorJobStoreID == Head(tuples)[1]
        predecessorID == Head(tuples)[2]
        s == successorJobStoreID
        rest == Tail(tuples)
        S1 == [S EXCEPT !.preds = IF s \in DOMAIN @ THEN [@ EXCEPT ![s] = Append(@, j)]
                                  ELSE Put(@, s, <<j>>)]
        schedule == Append(successors, <<s, 1, FALSE>>)
    IN IF predecessorID = NoPred
       THEN ScheduleSuccessors_ignoringFailed(S1, j, rest, schedule)
       ELSE IF s \notin S1.waiting /\ s \notin DOMAIN S1.store
       THEN ScheduleSuccessors_ignoringFailed(Raise(S1, "NoSuchJobException"), j, rest, successors)
       ELSE
       LET S2 == IF s \notin S1.waiting
                 THEN [S1 EXCEPT !.waiting = @ \cup {s}, !.mem = Put(@, s, S1.store[s])]
                 ELSE S1
           S3 == [S2 EXCEPT !.mem[s].predecessorsFinished = @ \cup {predecessorID}]
           successorJobWrapper == S3.mem[s]
           S4 == S3
       IN IF S4.err # "none"
          THEN ScheduleSuccessors_ignoringFailed(S4, j, rest, successors)
          ELSE IF Cardinality(successorJobWrapper.predecessorsFinished)
                      > successorJobWrapper.predecessorNumber
          THEN ScheduleSuccessors_ignoringFailed(Raise(S4, "AssertionError:772"), j, rest, successors)
          ELSE IF Cardinality(successorJobWrapper.predecessorsFinished)
                      < successorJobWrapper.predecessorNumber
          THEN ScheduleSuccessors_ignoringFailed(S4, j, rest, successors)
          ELSE ScheduleSuccessors_ignoringFailed([S4 EXCEPT !.waiting = @ \ {s}], j, rest, schedule)

\* a variant of that loop that leaves a successor with several predecessors
\* in the cache when it schedules it
RECURSIVE ScheduleSuccessors_keepingPending(_, _, _, _)
ScheduleSuccessors_keepingPending(S, j, tuples, successors) ==
    IF S.err # "none" \/ tuples = <<>> THEN [state |-> S, toIssue |-> successors]
    ELSE
    LET successorJobStoreID == Head(tuples)[1]
        predecessorID == Head(tuples)[2]
        s == successorJobStoreID
        rest == Tail(tuples)
        S1 == [S EXCEPT !.preds = IF s \in DOMAIN @ THEN [@ EXCEPT ![s] = Append(@, j)]
                                  ELSE Put(@, s, <<j>>)]
        schedule == Append(successors, <<s, 1, FALSE>>)
    IN IF predecessorID = NoPred
       THEN ScheduleSuccessors_keepingPending(S1, j, rest, schedule)
       ELSE IF s \notin S1.waiting /\ s \notin DOMAIN S1.store
       THEN ScheduleSuccessors_keepingPending(Raise(S1, "NoSuchJobException"), j, rest, successors)
       ELSE
       LET S2 == IF s \notin S1.waiting
                 THEN [S1 EXCEPT !.waiting = @ \cup {s}, !.mem = Put(@, s, S1.store[s])]
                 ELSE S1
           S3 == [S2 EXCEPT !.mem[s].predecessorsFinished = @ \cup {predecessorID}]
           successorJobWrapper == S3.mem[s]
           \* the successor is in the set of successors of failed jobs
           S4 == IF s \notin S3.failedSucc THEN S3
                 ELSE IF j \notin DOMAIN S3.counts
                 THEN Raise([S3 EXCEPT !.hasFailed = @ \cup {j}], "KeyError:756")
                 ELSE IF S3.counts[j] - 1 < 0
                 THEN Raise([S3 EXCEPT !.hasFailed = @ \cup {j}, !.counts[j] = @ - 1],
                            "AssertionError:757")
                 ELSE IF ~InList(S3.preds[s], j)
                 THEN Raise([S3 EXCEPT !.hasFailed = @ \cup {j}, !.counts[j] = @ - 1],
                            "ValueError:758")
                 ELSE [S3 EXCEPT
                         !.hasFailed = @ \cup {j},
                         !.counts = IF S3.counts[j] - 1 = 0 THEN Del(@, j)
                                    ELSE [@ EXCEPT ![j] = @ - 1],
                         !.preds = IF ListRemove(S3.preds[s], j) = <<>> THEN Del(@, s)
                                   ELSE [@ EXCEPT ![s] = ListRemove(@, j)],
                         !.updated = IF S3.counts[j] - 1 = 0 THEN @ \cup {<<j, 0>>} ELSE @]
           skipped == s \in S3.failedSucc /\ S4.err = "none" /\ j \notin DOMAIN S4.counts
       IN IF S4.err # "none" \/ skipped
          THEN ScheduleSuccessors_keepingPending(S4, j, rest, successors)
          ELSE IF Cardinality(successorJobWrapper.predecessorsFinished)
                      > successorJobWrapper.predecessorNumber
          THEN ScheduleSuccessors_keepingPending(Raise(S4, "AssertionError:772"), j, rest, successors)
          ELSE IF Cardinality(successorJobWrapper.predecessorsFinished)
                      < successorJobWrapper.predecessorNumber
          THEN ScheduleSuccessors_keepingPending(S4, j, rest, successors)
          ELSE ScheduleSuccessors_keepingPending(S4, j, rest, schedule)

\* innerLoop, the job has successors to run: the loop over jobWrapper.stack[-1].
\* successors is the list of successors to schedule; the result is the
\* state with the list in its field toIssue.
RECURSIVE ScheduleSuccessors(_, _, _, _)
ScheduleSuccessors(S, j, tuples, successors) ==
    IF S.err # "none" \/ tuples = <<>> THEN [state |-> S, toIssue |-> successors]
    ELSE
    LET successorJobStoreID == Head(tuples)[1]
        predecessorID == Head(tuples)[2]
        s == successorJobStoreID
        rest == Tail(tuples)
        S1 == [S EXCEPT !.preds = IF s \in DOMAIN @ THEN [@ EXCEPT ![s] = Append(@, j)]
                                  ELSE Put(@, s, <<j>>)]
        schedule == Append(successors, <<s, 1, FALSE>>)
    IN IF predecessorID = NoPred
       THEN ScheduleSuccessors(S1, j, rest, schedule)
       ELSE IF s \notin S1.waiting /\ s \notin DOMAIN S1.store
       THEN ScheduleSuccessors(Raise(S1, "NoSuchJobException"), j, rest, successors)
       ELSE
       LET S2 == IF s \notin S1.waiting
                 THEN [S1 EXCEPT !.waiting = @ \cup {s}, !.mem = Put(@, s, S1.store[s])]
                 ELSE S1
           S3 == [S2 EXCEPT !.mem[s].predecessorsFinished = @ \cup {predecessorID}]
           successorJobWrapper == S3.mem[s]
           \* the successor is in the set of successors of failed jobs
           S4 == IF s \notin S3.failedSucc THEN S3
                 ELSE IF j \notin DOMAIN S3.counts
                 THEN Raise([S3 EXCEPT !.hasFailed = @ \cup {j}], "KeyError:756")
                 ELSE IF S3.counts[j] - 1 < 0
                 THEN Raise([S3 EXCEPT !.hasFailed = @ \cup {j}, !.counts[j] = @ - 1],
                            "AssertionError:757")
                 ELSE IF ~InList(S3.preds[s], j)
                 THEN Raise([S3 EXCEPT !.hasFailed = @ \cup {j}, !.counts[j] = @ - 1],
                            "ValueError:758")
                 ELSE [S3 EXCEPT
                         !.hasFailed = @ \cup {j},
                         !.counts = IF S3.counts[j] - 1 = 0 THEN Del(@, j)
                                    ELSE [@ EXCEPT ![j] = @ - 1],
                         !.preds = IF ListRemove(S3.preds[s], j) = <<>> THEN Del(@, s)
                                   ELSE [@ EXCEPT ![s] = ListRemove(@, j)],
                         !.updated = IF S3.counts[j] - 1 = 0 THEN @ \cup {<<j, 0>>} ELSE @]
           skipped == s \in S3.failedSucc /\ S4.err = "none" /\ j \notin DOMAIN S4.counts
       IN IF S4.err # "none" \/ skipped
          THEN ScheduleSuccessors(S4, j, rest, successors)
          ELSE IF Cardinality(successorJobWrapper.predecessorsFinished)
                      > successorJobWrapper.predecessorNumber
          THEN ScheduleSuccessors(Raise(S4, "AssertionError:772"), j, rest, successors)
          ELSE IF Cardinality(successorJobWrapper.predecessorsFinished)
                      < successorJobWrapper.predecessorNumber
          THEN ScheduleSuccessors(S4, j, rest, successors)
          ELSE ScheduleSuccessors([S4 EXCEPT !.waiting = @ \ {s}], j, rest, schedule)

\* a variant that does not restart a checkpoint job
updateJobWithFailedSuccessors_withoutRestart(S, j) ==
    IF j \in DOMAIN S.svcIssued
    THEN {killServices(S, S.svcIssued[j], TRUE)}
    ELSE IF j \in DOMAIN S.counts THEN {S}
    ELSE processTotallyFailedJob(S, j)

\* innerLoop, a job some of whose successors failed: its services are told
\* to stop, or it waits for its running successors, or it is restarted as a
\* checkpoint, or it fails for good
updateJobWithFailedSuccessors(S, j) ==
    LET jobWrapper == S.mem[j]
    IN IF j \in DOMAIN S.svcIssued
       THEN {killServices(S, S.svcIssued[j], TRUE)}
       ELSE IF j \in DOMAIN S.counts THEN {S}
       ELSE IF jobWrapper.checkpoint /\ jobWrapper.remainingRetryCount > 0
       THEN {issueJob(S, j, jobWrapper.memory, jobWrapper.preemptable)}
       ELSE processTotallyFailedJob(S, j)

\* a variant that issues a failed job again whatever its retry count
updateReadyJob_retryingForever(S, j, resultStatus) ==
    LET jobWrapper == S.mem[j]
    IN IF jobWrapper.command \/ resultStatus # 0
       THEN {issueJob(S, j, jobWrapper.memory, jobWrapper.preemptable)}
       ELSE {S}

\* innerLoop, a job none of whose successors failed: it is run, or its
\* services are started, or its successors are scheduled, or its services
\* are stopped, or it is run to be removed
updateReadyJob(S, j, resultStatus) ==
    LET jobWrapper == S.mem[j]
    IN IF jobWrapper.command \/ resultStatus # 0
       THEN IF \/ jobWrapper.remainingRetryCount = 0
               \/ (j \in DOMAIN S.svcPred /\ ErrorFlag(j) \notin S.files)
            THEN processTotallyFailedJob(S, j)
            ELSE {issueJob(S, j, jobWrapper.memory, jobWrapper.preemptable)}
       ELSE IF Len(jobWrapper.services) > 0
       THEN IF j \in DOMAIN S.svcIssued THEN {Raise(S, "AssertionError:700")}
            ELSE {scheduleServices(
                      RegisterServices([S EXCEPT !.svcIssued = Put(@, j, EmptyMap)],
                                       j, Flatten(jobWrapper.services)),
                      j)}
       ELSE IF Len(jobWrapper.stack) > 0
       THEN IF Len(Last(jobWrapper.stack)) = 0 THEN {Raise(S, "AssertionError:716")}
            ELSE IF j \in DOMAIN S.counts THEN {Raise(S, "AssertionError:722")}
            ELSE LET r == ScheduleSuccessors(
                              [S EXCEPT !.counts = Put(@, j, Len(Last(jobWrapper.stack)))],
                              j, Last(jobWrapper.stack), <<>>)
                 IN {issueJobs(r.state, r.toIssue)}
       ELSE IF j \in DOMAIN S.svcIssued
       THEN {killServices(S, S.svcIssued[j], FALSE)}
       ELSE IF jobWrapper.remainingRetryCount > 0
            THEN {issueJob(S, j, defaultMemory, TRUE)}
            ELSE processTotallyFailedJob(S, j)

\* a variant of the loop body without the branch for the jobs with failed
\* successors
updateJob_uncontained(S, j, resultStatus) ==
    IF j \in S.being THEN {S}
    ELSE updateReadyJob(S, j, resultStatus)

\* a variant of the loop body that does not skip a job that the service
\* manager holds
updateJob_withoutSkip(S, j, resultStatus) ==
    IF j \in S.hasFailed THEN updateJobWithFailedSuccessors(S, j)
    ELSE updateReadyJob(S, j, resultStatus)

\* innerLoop, the body of the loop over the updated jobs for one pair
\* (jobWrapper, resultStatus); the JobWrapper object is S.mem[j].  The
\* results are the states the leader can be in after it.
updateJob(S, j, resultStatus) ==
    IF j \in S.being THEN {S}
    ELSE IF j \in S.hasFailed THEN updateJobWithFailedSuccessors(S, j)
    ELSE updateReadyJob(S, j, resultStatus)

(***************************************************************************)
(* Leader.run and Leader.innerLoop.                                        *)
(***************************************************************************)
\* an exception leaves innerLoop: run() goes to its finally clauses
AfterStep(S, nextPc) ==
    /\ Becomes(S)
    /\ pc' = IF S.err # "none" THEN "finally" ELSE nextPc

\* run(): the service manager thread is started (the job cache of the
\* construction is not read any more)
StartServiceManager ==
    /\ pc = "start"
    /\ pc' = "start1"
    /\ smPc' = "idle"
    /\ calls' = Append(calls, "serviceManager.start")
    /\ useCache' = FALSE
    /\ jobCache' = EmptyMap
    /\ UNCHANGED <<jobStore, files, mem, toilVars, buildStack, firstBuild, leaderVars, localUpdatedJobs,
                   failure, smVars, terminate, smJob, smGroup, smIdx, smTimedOut, bsVars, statsAlive,
                   clusterScaler, jobStoreClass, maxJobDuration, stop, scalerAlive, faults, histVars, nextJobID>>

\* run(): the stats and logging thread is started
StartStatsAndLogging ==
    /\ pc = "start1"
    /\ pc' = "start2"
    /\ statsAlive' = TRUE
    /\ calls' = Append(calls, "statsAndLogging.start")
    /\ UNCHANGED <<jobStore, files, mem, toilVars, buildVars, leaderVars, localUpdatedJobs,
                   failure, smVars, terminate, smThreadVars, bsVars, clusterScaler, jobStoreClass, maxJobDuration, stop, scalerAlive, faults,
                   histVars, nextJobID>>

\* run(): the cluster scaler is started if there is one
StartClusterScaler ==
    /\ pc = "start2"
    /\ pc' = "top"
    /\ calls' = IF clusterScaler THEN Append(calls, "clusterScaler.start") ELSE calls
    /\ scalerAlive' = clusterScaler
    /\ UNCHANGED <<jobStore, files, mem, toilVars, buildVars, leaderVars, localUpdatedJobs,
                   failure, smVars, terminate, smThreadVars, bsVars, statsAlive,
                   clusterScaler, jobStoreClass, maxJobDuration, stop, faults, histVars, nextJobID>>

\* a variant of the head of the loop that does not reset the set
TakeUpdatedJobs_withoutReset ==
    /\ pc = "top"
    /\ IF updatedJobs = {}
       THEN /\ pc' = "exit"
            /\ UNCHANGED <<localUpdatedJobs, updatedJobs, failure>>
       ELSE IF getNumberOfJobsIssued(Here).err # "none"
       THEN /\ pc' = "finally"
            /\ failure' = getNumberOfJobsIssued(Here).err
            /\ UNCHANGED <<localUpdatedJobs, updatedJobs>>
       ELSE /\ localUpdatedJobs' = updatedJobs
            /\ updatedJobs' = updatedJobs
            /\ pc' = "process"
            /\ UNCHANGED failure
    /\ UNCHANGED <<jobStore, files, mem, successorJobStoreIDToPredecessorJobs,
                   successorCounts, serviceJobStoreIDToPredecessorJob, servicesIssued,
                   totalFailedJobs, hasFailedSuccessors, failedSuccessors,
                   jobsToBeScheduledWithMultiplePredecessors, buildVars, leaderVars,
                   smVars, terminate, smThreadVars, bsVars, statsAlive, auxVars, faults,
                   histVars, nextJobID>>

\* the head of the loop: the updated jobs are taken and the set is reset
TakeUpdatedJobs ==
    /\ pc = "top"
    /\ IF updatedJobs = {}
       THEN /\ pc' = "exit"
            /\ UNCHANGED <<localUpdatedJobs, updatedJobs, failure>>
       ELSE IF getNumberOfJobsIssued(Here).err # "none"
       THEN /\ pc' = "finally"
            /\ failure' = getNumberOfJobsIssued(Here).err
            /\ UNCHANGED <<localUpdatedJobs, updatedJobs>>
       ELSE /\ localUpdatedJobs' = updatedJobs
            /\ updatedJobs' = {}
            /\ pc' = "process"
            /\ UNCHANGED failure
    /\ UNCHANGED <<jobStore, files, mem, successorJobStoreIDToPredecessorJobs,
                   successorCounts, serviceJobStoreIDToPredecessorJob, servicesIssued,
                   totalFailedJobs, hasFailedSuccessors, failedSuccessors,
                   jobsToBeScheduledWithMultiplePredecessors, buildVars, leaderVars,
                   smVars, terminate, smThreadVars, bsVars, statsAlive, auxVars, faults,
                   histVars, nextJobID>>

\* one iteration of the loop over the updated jobs (a set: in any order)
ProcessUpdatedJob ==
    /\ pc = "process"
    /\ \E u \in localUpdatedJobs :
          /\ localUpdatedJobs' = localUpdatedJobs \ {u}
          /\ \E S \in updateJob(Here, u[1], u[2]) :
                AfterStep(S, IF localUpdatedJobs = {u} THEN "exit" ELSE "process")
    /\ UNCHANGED <<buildVars, jobWrappersWithServicesThatHaveStarted,
                   serviceJobWrappersToStart, terminate, smThreadVars, bsUpdated,
                   statsAlive, auxVars, faults, histVars, nextJobID>>

\* a variant of the exit criterion that does not look at the service manager
ExitCriterion_withoutServiceManager ==
    /\ Cardinality(updatedJobs) = 0
    /\ getNumberOfJobsIssued(Here).err = "none"
    /\ getNumberOfJobsIssued(Here).result = 0

\* the exit criterion of the loop: its three tests, from left to right
ExitCriterion ==
    /\ Cardinality(updatedJobs) = 0
    /\ getNumberOfJobsIssued(Here).err = "none"
    /\ getNumberOfJobsIssued(Here).result = 0
    /\ serviceJobsIssuedToServiceManager = 0

\* the second test is made and its call raises
ExitCriterionRaises ==
    /\ Cardinality(updatedJobs) = 0
    /\ getNumberOfJobsIssued(Here).err # "none"

ExitCheck ==
    /\ pc = "exit"
    /\ IF ExitCriterionRaises
       THEN /\ pc' = "finally"
            /\ failure' = getNumberOfJobsIssued(Here).err
       ELSE /\ pc' = IF ExitCriterion THEN "exited" ELSE "startsvc"
            /\ UNCHANGED failure
    /\ UNCHANGED <<jobStore, files, mem, toilVars, buildVars, leaderVars, localUpdatedJobs,
                   smVars, terminate, smThreadVars, bsVars, statsAlive, auxVars, faults,
                   histVars, nextJobID>>

\* ServiceManager.getServiceJobsToStart(0) when the queue holds a tuple: the
\* tuple has been taken from the queue, the counter is checked and lowered
getServiceJobsToStart(S) ==
    IF S.smCount < 0 THEN Raise(S, "AssertionError:386")
    ELSE [S EXCEPT !.smCount = @ - 1]

\* one pass of the loop that starts the service jobs: the service manager
\* has none and the loop ends, or it hands out one and the job is issued
StartServiceJobs ==
    /\ pc = "startsvc"
    /\ IF serviceJobWrappersToStart = <<>>
       THEN /\ AfterStep(Here, "collect")
            /\ UNCHANGED serviceJobWrappersToStart
       ELSE LET serviceJobTuple == Head(serviceJobWrappersToStart)
            IN /\ serviceJobWrappersToStart' = Tail(serviceJobWrappersToStart)
               /\ \E S \in {issueJob(getServiceJobsToStart(Here), serviceJobTuple[1],
                                      serviceJobTuple[2], FALSE)} :
                     AfterStep(S, "startsvc")
    /\ UNCHANGED <<buildVars, localUpdatedJobs, jobWrappersWithServicesThatHaveStarted,
                   terminate, smThreadVars, bsUpdated, statsAlive, auxVars, faults, histVars, nextJobID>>

\* ServiceManager.getJobWrapperWhoseServicesAreRunning(0) when the queue
\* holds a job: jobWrapper has been taken from the queue
getJobWrapperWhoseServicesAreRunning(S, jobWrapper) ==
    IF jobWrapper \notin S.being THEN Raise(S, "KeyError:370")
    ELSE IF S.smCount < 0
    THEN Raise([S EXCEPT !.being = @ \ {jobWrapper}], "AssertionError:371")
    ELSE [S EXCEPT !.being = @ \ {jobWrapper}, !.smCount = @ - 1]

\* one pass of the loop that gets the jobs whose services have started: the
\* service manager has none and the loop ends, or it hands one back, which
\* loses its services and joins the updated jobs
CollectReadyJobs ==
    /\ pc = "collect"
    /\ IF jobWrappersWithServicesThatHaveStarted = <<>>
       THEN /\ AfterStep(Here, "poll")
            /\ UNCHANGED jobWrappersWithServicesThatHaveStarted
       ELSE LET jobWrapper == Head(jobWrappersWithServicesThatHaveStarted)
            IN /\ jobWrappersWithServicesThatHaveStarted' =
                      Tail(jobWrappersWithServicesThatHaveStarted)
               /\ \E S \in {getJobWrapperWhoseServicesAreRunning(Here, jobWrapper)} :
                     AfterStep(IF S.err # "none" THEN S
                               ELSE [S EXCEPT !.mem[jobWrapper].services = <<>>,
                                              !.updated = @ \cup {<<jobWrapper, 0>>}],
                               "collect")
    /\ UNCHANGED <<buildVars, localUpdatedJobs, serviceJobWrappersToStart, terminate,
                   smThreadVars, bsUpdated, statsAlive, auxVars, faults, histVars, nextJobID>>

\* the orders in which a set can be iterated: Python iterates over a set,
\* or over the keys of a dict, in the order of its hash table
RECURSIVE Orders(_)
Orders(X) ==
    IF X = {} THEN {<<>>}
    ELSE UNION {{<<x>> \o q : q \in Orders(X \ {x})} : x \in X}

\* Leader.killJobs, the loop that sends the killed jobs for processing:
\* jobStore.exists may answer True for the record of a job that is gone
RECURSIVE ProcessKilledJobs(_, _)
ProcessKilledJobs(S, jobsToKill) ==
    IF S.err # "none" \/ jobsToKill = <<>> THEN {S}
    ELSE LET jobBatchSystemID == Head(jobsToKill)
             answers == IF jobBatchSystemID \in DOMAIN S.issued
                        THEN exists(S.store, S.issued[jobBatchSystemID].jobStoreID)
                        ELSE {FALSE}
         IN UNION {ProcessKilledJobs(
                       processFinishedJob(
                           S, jobBatchSystemID, 1,
                           answer /\ S.issued[jobBatchSystemID].jobStoreID
                                        \notin DOMAIN S.store),
                       Tail(jobsToKill)) :
                     answer \in answers}

\* a variant of killJobs that tells the batch system to kill the jobs and
\* leaves them tracked
killJobs_withoutProcessing(S, jobsToKill) ==
    IF S.err # "none" \/ Len(jobsToKill) = 0 THEN {S}
    ELSE {[S EXCEPT !.bs = [b \in (DOMAIN @) \ SeqToSet(jobsToKill) |-> @[b]],
                    !.hidden = @ \ SeqToSet(jobsToKill),
                    !.killed = @ \cup SeqToSet(jobsToKill)]}

\* Leader.killJobs: batchSystem.killBatchJobs removes the jobs from the
\* batch system
killJobs(S, jobsToKill) ==
    IF S.err # "none" \/ Len(jobsToKill) = 0 THEN {S}
    ELSE ProcessKilledJobs(
             [S EXCEPT !.bs = [b \in (DOMAIN @) \ SeqToSet(jobsToKill) |-> @[b]],
                       !.hidden = @ \ SeqToSet(jobsToKill),
                       !.killed = @ \cup SeqToSet(jobsToKill)],
             jobsToKill)

\* Leader.reissueOverLongJobs: overLong are the running batch jobs whose
\* run time exceeds maxJobDuration, a dict whose keys are iterated
reissueOverLongJobs(S, maxDuration, overLong) ==
    IF ~(maxDuration < NoMaxJobDuration) THEN {S}
    ELSE IF overLong \subseteq DOMAIN S.issued
    THEN UNION {killJobs(S, jobsToKill) : jobsToKill \in Orders(overLong)}
    ELSE {Raise(S, "KeyError:988")}

\* Leader.reissueMissingJobs, the loop over the tracked jobs that the batch
\* system does not list: the hash after it
RECURSIVE CountMissing(_, _, _)
CountMissing(hash, missingIDs, killAfter) ==
    IF missingIDs = <<>> THEN hash
    ELSE LET b == Head(missingIDs)
             timesMissingNow == IF b \in DOMAIN hash THEN hash[b] + 1 ELSE 1
         IN CountMissing(IF timesMissingNow = killAfter THEN Del(hash, b)
                         ELSE Put(hash, b, timesMissingNow),
                         Tail(missingIDs), killAfter)

\* the jobs that loop appends to jobsToKill
MissingToKill(hash, missingIDs, killAfter) ==
    SelectSeq(missingIDs,
              LAMBDA b : (IF b \in DOMAIN hash THEN hash[b] + 1 ELSE 1) = killAfter)

\* a variant of reissueMissingJobs that tolerates one more scan
reissueMissingJobs_late(S, killAfter) ==
    IF S.err # "none" THEN {S}
    ELSE
    LET runningJobs == (DOMAIN S.bs) \ S.hidden
        jobBatchSystemIDsSet == DOMAIN S.issued
        cleaned == [b \in (DOMAIN S.missing) \cap jobBatchSystemIDsSet |-> S.missing[b]]
        scan(missingIDs) ==
            killJobs([S EXCEPT !.missing = CountMissing(cleaned, missingIDs, killAfter + 1)],
                     MissingToKill(cleaned, missingIDs, killAfter + 1))
    IN IF ~(runningJobs \subseteq jobBatchSystemIDsSet)
       THEN {Raise([S EXCEPT !.missing = cleaned], "AssertionError:1008")}
       ELSE UNION {scan(missingIDs) :
                      missingIDs \in Orders(jobBatchSystemIDsSet \ runningJobs)}

\* Leader.reissueMissingJobs(killAfterNTimesMissing): the set of the missing
\* jobs is iterated in one of its orders
reissueMissingJobs(S, killAfter) ==
    IF S.err # "none" THEN {S}
    ELSE
    LET runningJobs == (DOMAIN S.bs) \ S.hidden
        jobBatchSystemIDsSet == DOMAIN S.issued
        cleaned == [b \in (DOMAIN S.missing) \cap jobBatchSystemIDsSet |-> S.missing[b]]
        scan(missingIDs) ==
            killJobs([S EXCEPT !.missing = CountMissing(cleaned, missingIDs, killAfter)],
                     MissingToKill(cleaned, missingIDs, killAfter))
    IN IF ~(runningJobs \subseteq jobBatchSystemIDsSet)
       THEN {Raise([S EXCEPT !.missing = cleaned], "AssertionError:1008")}
       ELSE UNION {scan(missingIDs) :
                      missingIDs \in Orders(jobBatchSystemIDsSet \ runningJobs)}

\* processFinishedJob asks jobStore.exists for the job of a tracked batch
\* job: the reads that are stale among the answers it can get
StaleReads(jobBatchSystemID) ==
    {answer /\ jobBatchSystemIDToIssuedJob[jobBatchSystemID].jobStoreID
                  \notin DOMAIN jobStore :
        answer \in exists(jobStore,
                          jobBatchSystemIDToIssuedJob[jobBatchSystemID].jobStoreID)}

\* a variant of that step that does not ask hasJob before it calls
\* processFinishedJob
PollEvent_withoutHasJob ==
    /\ pc = "poll"
    /\ bsUpdated # <<>>
    /\ LET jobBatchSystemID == Head(bsUpdated)[1]
           result == Head(bsUpdated)[2]
       IN IF TRUE
          THEN \E stale \in IF jobBatchSystemID \in DOMAIN jobBatchSystemIDToIssuedJob
                            THEN StaleReads(jobBatchSystemID) ELSE {FALSE} :
                  \E S \in {processFinishedJob(Here, jobBatchSystemID, result, stale)} :
                     /\ AfterStep(S, "health")
                     /\ lastFinished' = S.finished
                     /\ timesMissing' = [b \in (DOMAIN timesMissing) \cap (DOMAIN S.issued)
                                            |-> timesMissing[b]]
          ELSE /\ AfterStep(Here, "health")
               /\ lastFinished' = {}
               /\ UNCHANGED timesMissing
    /\ bsUpdated' = Tail(bsUpdated)
    /\ lastScan' = NoScan
    /\ UNCHANGED <<buildVars, localUpdatedJobs, jobWrappersWithServicesThatHaveStarted,
                   serviceJobWrappersToStart, terminate, smThreadVars, statsAlive, auxVars, faults,
                   nextJobID>>

\* batchSystem.getUpdatedBatchJob(2) returns a completion event
PollEvent ==
    /\ pc = "poll"
    /\ bsUpdated # <<>>
    /\ LET jobBatchSystemID == Head(bsUpdated)[1]
           result == Head(bsUpdated)[2]
       IN IF jobBatchSystemID \in DOMAIN jobBatchSystemIDToIssuedJob
          THEN \E stale \in StaleReads(jobBatchSystemID) :
                  \E S \in {processFinishedJob(Here, jobBatchSystemID, result, stale)} :
                     /\ AfterStep(S, "health")
                     /\ lastFinished' = S.finished
                     /\ timesMissing' = [b \in (DOMAIN timesMissing) \cap (DOMAIN S.issued)
                                            |-> timesMissing[b]]
          ELSE /\ AfterStep(Here, "health")
               /\ lastFinished' = {}
               /\ UNCHANGED timesMissing
    /\ bsUpdated' = Tail(bsUpdated)
    /\ lastScan' = NoScan
    /\ UNCHANGED <<buildVars, localUpdatedJobs, jobWrappersWithServicesThatHaveStarted,
                   serviceJobWrappersToStart, terminate, smThreadVars, statsAlive, auxVars, faults,
                   nextJobID>>

\* getUpdatedBatchJob returns None and it is not yet time to rescue jobs
PollQuiet ==
    /\ pc = "poll"
    /\ bsUpdated = <<>>
    /\ pc' = "health"
    /\ UNCHANGED <<jobStore, files, mem, toilVars, buildVars, leaderVars, localUpdatedJobs,
                   failure, smVars, terminate, smThreadVars, bsVars, statsAlive, auxVars, faults,
                   histVars, nextJobID>>

\* getUpdatedBatchJob returns None and rescueJobsFrequency has passed:
\* reissueOverLongJobs and reissueMissingJobs run.  The batch system may or
\* may not report a completion for the jobs that were killed.
RescueJobs ==
    /\ pc = "poll"
    /\ bsUpdated = <<>>
    /\ \E overLong \in SUBSET (DOMAIN bsJobs) : \E echo \in BOOLEAN :
          \E S1 \in reissueOverLongJobs(Here, maxJobDuration, overLong) :
          \E S \in reissueMissingJobs(S1, killAfterNTimesMissing) :
          \E events \in Orders(S.killed) :
          LET reported == (DOMAIN S1.bs) \ S1.hidden
              found == (DOMAIN S1.issued) \ reported
              kills == IF maxJobDuration < NoMaxJobDuration
                       THEN Cardinality(overLong) ELSE 0
          IN /\ faults + kills <= MaxFaults
             /\ faults' = faults + kills
             /\ AfterStep(S, "health")
             /\ bsUpdated' = IF echo THEN [i \in DOMAIN events |-> <<events[i], 1>>]
                             ELSE <<>>
             /\ lastFinished' = S.finished
             /\ lastScan' = [ran |-> S1.err = "none", reported |-> reported,
                             killed |-> S.killed \ S1.killed]
             /\ timesMissing' =
                   [b \in ((DOMAIN timesMissing) \cup found) \cap (DOMAIN S.issued) |->
                       (IF b \in DOMAIN timesMissing THEN timesMissing[b] ELSE 0)
                       + (IF b \in found THEN 1 ELSE 0)]
    /\ UNCHANGED <<buildVars, localUpdatedJobs, jobWrappersWithServicesThatHaveStarted,
                   serviceJobWrappersToStart, terminate, smThreadVars, statsAlive, auxVars,
                   nextJobID>>

\* a variant of the checks that does not look at the cluster scaler
HealthCheck_withoutClusterScaler ==
    /\ pc = "health"
    /\ IF ~statsAlive
       THEN pc' = "finally" /\ failure' = "RuntimeError:124"
       ELSE IF smPc \notin {"idle", "put", "wait"}
            THEN pc' = "finally" /\ failure' = "RuntimeError:408"
            ELSE pc' = "top" /\ UNCHANGED failure
    /\ lastFinished' = {}
    /\ lastScan' = NoScan
    /\ UNCHANGED <<jobStore, files, mem, toilVars, buildVars, leaderVars, localUpdatedJobs,
                   smVars, terminate, smThreadVars, bsVars, statsAlive, auxVars, faults,
                   timesMissing, nextJobID>>

\* the checks on the threads at the end of an iteration: the stats and
\* logging thread, the service manager thread, the cluster scaler if there
\* is one
HealthCheck ==
    /\ pc = "health"
    /\ IF ~statsAlive
       THEN pc' = "finally" /\ failure' = "RuntimeError:124"
       ELSE IF smPc \notin {"idle", "put", "wait"}
            THEN pc' = "finally" /\ failure' = "RuntimeError:408"
            ELSE IF clusterScaler /\ ~scalerAlive
                 THEN pc' = "finally" /\ failure' = "RuntimeError:881"
                 ELSE pc' = "top" /\ UNCHANGED failure
    /\ lastFinished' = {}
    /\ lastScan' = NoScan
    /\ UNCHANGED <<jobStore, files, mem, toilVars, buildVars, leaderVars, localUpdatedJobs,
                   smVars, terminate, smThreadVars, bsVars, statsAlive, auxVars, faults,
                   timesMissing, nextJobID>>

\* the consistency checks of innerLoop after the loop
ConsistencyCheck ==
    /\ pc = "exited"
    /\ pc' = "finally"
    /\ failure' = IF updatedJobs # {} THEN "AssertionError:886"
                  ELSE IF DOMAIN successorCounts # {} THEN "AssertionError:887"
                  ELSE IF DOMAIN successorJobStoreIDToPredecessorJobs # {}
                       THEN "AssertionError:888"
                  ELSE IF DOMAIN serviceJobStoreIDToPredecessorJob # {}
                       THEN "AssertionError:889"
                  ELSE IF DOMAIN servicesIssued # {} THEN "AssertionError:890"
                  ELSE "none"
    /\ UNCHANGED <<jobStore, files, mem, toilVars, buildVars, leaderVars, localUpdatedJobs,
                   smVars, terminate, smThreadVars, bsVars, statsAlive, auxVars, faults, histVars, nextJobID>>

\* a variant of the innermost finally clause that leaves the cluster scaler
\* running
ShutdownClusterScaler_skipped ==
    /\ pc = "finally"
    /\ pc' = "finally1"
    /\ UNCHANGED <<jobStore, files, mem, toilVars, buildVars, leaderVars, localUpdatedJobs,
                   failure, smVars, terminate, smThreadVars, bsVars, statsAlive, auxVars,
                   faults, histVars, nextJobID>>

\* run(), the finally clauses, innermost first: clusterScaler.shutdown() if
\* there is a cluster scaler, then statsAndLogging.shutdown(), then
\* serviceManager.shutdown(), which sets the terminate event and joins the
\* thread
ShutdownClusterScaler ==
    /\ pc = "finally"
    /\ pc' = "finally1"
    /\ calls' = IF clusterScaler THEN Append(calls, "clusterScaler.shutdown") ELSE calls
    /\ scalerAlive' = FALSE
    /\ UNCHANGED <<jobStore, files, mem, toilVars, buildVars, leaderVars, localUpdatedJobs,
                   failure, smVars, terminate, smThreadVars, bsVars, statsAlive,
                   clusterScaler, jobStoreClass, maxJobDuration, stop, faults, histVars, nextJobID>>

\* statsAndLogging.shutdown(): the stop event is set, and the leader waits
\* in the join for the thread to end
ShutdownStatsAndLogging ==
    /\ pc = "finally1"
    /\ pc' = "statsjoin"
    /\ stop' = TRUE
    /\ calls' = Append(calls, "statsAndLogging.shutdown")
    /\ UNCHANGED <<jobStore, files, mem, toilVars, buildVars, leaderVars, localUpdatedJobs,
                   failure, smVars, terminate, smThreadVars, bsVars, statsAlive,
                   clusterScaler, jobStoreClass, maxJobDuration, scalerAlive, faults,
                   histVars, nextJobID>>

\* statsAndLogging.shutdown(): the join returns once the thread has ended
JoinStatsAndLogging ==
    /\ pc = "statsjoin"
    /\ ~statsAlive
    /\ pc' = "finally2"
    /\ UNCHANGED <<jobStore, files, mem, toilVars, buildVars, leaderVars, localUpdatedJobs,
                   failure, smVars, terminate, smThreadVars, bsVars, statsAlive, auxVars,
                   faults, histVars, nextJobID>>

ShutdownServiceManager ==
    /\ pc = "finally2"
    /\ pc' = "join"
    /\ terminate' = TRUE
    /\ calls' = Append(calls, "serviceManager.shutdown")
    /\ UNCHANGED <<jobStore, files, mem, toilVars, buildVars, leaderVars, localUpdatedJobs,
                   failure, smVars, smThreadVars, bsVars, statsAlive, clusterScaler, jobStoreClass, maxJobDuration, stop, scalerAlive, faults,
                   histVars, nextJobID>>

\* what cPickle.load makes of the shared file with the root job's return
\* value: it returns the value, or it raises EOFError, or it raises another
\* error such as UnpicklingError
LoadOutcomes == {"value", "EOFError", "UnpicklingError"}

\* the end of run() for an outcome of cPickle.load: the value is returned,
\* EOFError is caught and FailedJobsException raised in its place, any other
\* error leaves run() as it is
AfterLoad(outcome) ==
    IF outcome = "value" THEN "none"
    ELSE IF outcome = "EOFError" THEN "FailedJobsException:612"
    ELSE "UnpicklingError:609"

\* a variant of the end of run() that does not look at the failed jobs
RunEnd_ignoringFailedJobs ==
    /\ pc = "join"
    /\ smPc \in {"dead", "crashed"}
    /\ pc' = "done"
    /\ \E outcome \in LoadOutcomes :
          IF failure = "none"
          THEN /\ totalFailedJobs' = totalFailedJobs
               /\ failure' = AfterLoad(outcome)
          ELSE UNCHANGED <<totalFailedJobs, failure>>
    /\ UNCHANGED <<jobStore, files, mem, successorJobStoreIDToPredecessorJobs,
                   successorCounts, serviceJobStoreIDToPredecessorJob, servicesIssued,
                   updatedJobs, hasFailedSuccessors, failedSuccessors,
                   jobsToBeScheduledWithMultiplePredecessors, buildVars, leaderVars,
                   localUpdatedJobs, smVars, terminate, smThreadVars, bsVars, statsAlive, auxVars,
                   faults, histVars, nextJobID>>

\* the service manager thread has ended: if no exception is propagating,
\* run() filters the failed jobs by jobStore.exists and raises
\* FailedJobsException if some are
\* left, and else reads the return value of the root job from the shared
\* file: of the errors of the load only EOFError is turned into
\* FailedJobsException
RunEnd ==
    /\ pc = "join"
    /\ smPc \in {"dead", "crashed"}
    /\ pc' = "done"
    /\ \E outcome \in LoadOutcomes :
          IF failure = "none"
          THEN /\ \E kept \in [totalFailedJobs -> BOOLEAN] :
                     /\ \A j \in totalFailedJobs : kept[j] \in exists(jobStore, j)
                     /\ totalFailedJobs' = {j \in totalFailedJobs : kept[j]}
               /\ failure' = IF totalFailedJobs' # {} THEN "FailedJobsException"
                             ELSE AfterLoad(outcome)
          ELSE UNCHANGED <<totalFailedJobs, failure>>
    /\ UNCHANGED <<jobStore, files, mem, successorJobStoreIDToPredecessorJobs,
                   successorCounts, serviceJobStoreIDToPredecessorJob, servicesIssued,
                   updatedJobs, hasFailedSuccessors, failedSuccessors,
                   jobsToBeScheduledWithMultiplePredecessors, buildVars, leaderVars,
                   localUpdatedJobs, smVars, terminate, smThreadVars, bsVars, statsAlive, auxVars,
                   faults, histVars, nextJobID>>

(***************************************************************************)
(* The thread ServiceManager._startServices.                               *)
(***************************************************************************)
\* the first service group after group g that is not empty, or 0 if there
\* is none: the loops over the services of an empty group do nothing
RECURSIVE NextGroup(_, _)
NextGroup(services, g) ==
    IF g >= Len(services) THEN 0
    ELSE IF services[g + 1] # <<>> THEN g + 1
    ELSE NextGroup(services, g + 1)

\* the get on the input queue returns a job; a job without a service to
\* start is handed back at once
SMGet ==
    /\ smPc = "idle"
    /\ ~smTimedOut
    /\ jobWrappersWithServicesToStart # <<>>
    /\ LET jobWrapper == Head(jobWrappersWithServicesToStart)
           first == NextGroup(mem[jobWrapper].services, 0)
       IN /\ jobWrappersWithServicesToStart' = Tail(jobWrappersWithServicesToStart)
          /\ IF first = 0
             THEN /\ jobWrappersWithServicesThatHaveStarted' =
                        Append(jobWrappersWithServicesThatHaveStarted, jobWrapper)
                  /\ UNCHANGED smThreadVars
             ELSE /\ smPc' = "put"
                  /\ smJob' = jobWrapper
                  /\ smGroup' = first
                  /\ smIdx' = 1
                  /\ UNCHANGED <<jobWrappersWithServicesThatHaveStarted, smTimedOut>>
    /\ UNCHANGED <<jobStore, files, mem, toilVars, buildVars, leaderVars, pc,
                   localUpdatedJobs, failure, jobWrappersWithServicesBeingStarted,
                   serviceJobWrappersToStart, serviceJobsIssuedToServiceManager, terminate,
                   bsVars, statsAlive, auxVars, faults, histVars, nextJobID>>

\* the get on the input queue finds the queue empty and times out
SMEmpty ==
    /\ smPc = "idle"
    /\ ~smTimedOut
    /\ jobWrappersWithServicesToStart = <<>>
    /\ smTimedOut' = TRUE
    /\ UNCHANGED <<jobStore, files, mem, toilVars, buildVars, leaderVars, pc,
                   localUpdatedJobs, failure, smVars, terminate, smPc, smJob, smGroup, smIdx,
                   bsVars, statsAlive, auxVars, faults, histVars, nextJobID>>

\* after a get that timed out the terminate event is set: the thread ends,
\* whatever its input queue holds by now
SMQuit ==
    /\ smPc = "idle"
    /\ smTimedOut
    /\ terminate
    /\ smPc' = "dead"
    /\ smTimedOut' = FALSE
    /\ UNCHANGED <<jobStore, files, mem, toilVars, buildVars, leaderVars, pc,
                   localUpdatedJobs, failure, smVars, terminate, smJob, smGroup, smIdx,
                   bsVars, statsAlive, auxVars, faults, histVars, nextJobID>>

\* after a get that timed out the terminate event is not set: the thread
\* tries the get again
SMContinue ==
    /\ smPc = "idle"
    /\ smTimedOut
    /\ ~terminate
    /\ smTimedOut' = FALSE
    /\ UNCHANGED <<jobStore, files, mem, toilVars, buildVars, leaderVars, pc,
                   localUpdatedJobs, failure, smVars, terminate, smPc, smJob, smGroup, smIdx,
                   bsVars, statsAlive, auxVars, faults, histVars, nextJobID>>

\* a service of the current group is put on the queue of services to start
SMPut ==
    /\ smPc = "put"
    /\ LET serviceJobList == mem[smJob].services[smGroup]
           serviceTuple == serviceJobList[smIdx]
       IN IF serviceTuple[2] \notin files
          THEN /\ smPc' = "crashed"
               /\ UNCHANGED <<serviceJobWrappersToStart, smJob, smGroup, smIdx>>
          ELSE /\ serviceJobWrappersToStart' =
                     Append(serviceJobWrappersToStart, <<serviceTuple[1], 1>>)
               /\ IF smIdx < Len(serviceJobList)
                  THEN smIdx' = smIdx + 1 /\ UNCHANGED smPc
                  ELSE smIdx' = 1 /\ smPc' = "wait"
               /\ UNCHANGED <<smJob, smGroup>>
    /\ UNCHANGED <<jobStore, files, mem, toilVars, buildVars, leaderVars, pc,
                   localUpdatedJobs, failure, jobWrappersWithServicesBeingStarted,
                   jobWrappersWithServicesToStart, jobWrappersWithServicesThatHaveStarted,
                   serviceJobsIssuedToServiceManager, terminate, smTimedOut, bsVars,
                   statsAlive, auxVars, faults, histVars, nextJobID>>

\* the wait for a service of the current group ends: its start flag is gone,
\* or the terminate event is set after a sleep
WaitIsOver(startJobStoreID) == startJobStoreID \notin files \/ terminate

\* the wait for a service of the current group ends; after the last service
\* of the group the thread goes on with the next group that has a service,
\* and after the last group it hands the job back
SMWait ==
    /\ smPc = "wait"
    /\ LET services == mem[smJob].services
           serviceJobList == services[smGroup]
           next == NextGroup(services, smGroup)
       IN /\ WaitIsOver(serviceJobList[smIdx][2])
          /\ IF smIdx < Len(serviceJobList)
             THEN /\ smIdx' = smIdx + 1
                  /\ UNCHANGED <<smPc, smJob, smGroup, jobWrappersWithServicesThatHaveStarted>>
             ELSE IF next # 0
                  THEN /\ smGroup' = next
                       /\ smIdx' = 1
                       /\ smPc' = "put"
                       /\ UNCHANGED <<smJob, jobWrappersWithServicesThatHaveStarted>>
                  ELSE /\ jobWrappersWithServicesThatHaveStarted' =
                             Append(jobWrappersWithServicesThatHaveStarted, smJob)
                       /\ smPc' = "idle"
                       /\ smJob' = 0
                       /\ smGroup' = 0
                       /\ smIdx' = 0
    /\ UNCHANGED <<jobStore, files, mem, toilVars, buildVars, leaderVars, pc,
                   localUpdatedJobs, failure, jobWrappersWithServicesBeingStarted,
                   jobWrappersWithServicesToStart, serviceJobWrappersToStart,
                   serviceJobsIssuedToServiceManager, terminate, smTimedOut, bsVars,
                   statsAlive, auxVars, faults, histVars, nextJobID>>

ServiceManagerThread == SMGet \/ SMEmpty \/ SMQuit \/ SMContinue \/ SMPut \/ SMWait

(***************************************************************************)
(* The environment: the workers that run the batch jobs, the batch system  *)
(* and the stats and logging thread.                                       *)
(***************************************************************************)
InLoop == pc \in {"top", "process", "exit", "startsvc", "collect", "poll", "health"}

\* the worker drops the successor groups at the top of the stack whose jobs
\* are gone from the job store
RECURSIVE PopFinished(_, _)
PopFinished(stk, store) ==
    IF stk = <<>> THEN stk
    ELSE IF Last(stk)[1][1] \in DOMAIN store THEN stk
    ELSE PopFinished(Front(stk), store)

\* the jobs below a stack that exist in the job store
Descendants(stk, store) ==
    UNION {found.successors : found \in getSuccessors([stack |-> stk], {}, store)}
       \cap DOMAIN store

\* what a worker does before it runs the job's command: it drops the
\* finished successor groups, and for a checkpoint job that has something
\* left it restores the command, takes a retry and deletes the successors.
\* The command of a checkpoint job creates one child, a new job.
WorkerPrepare(rec, store) ==
    LET stk == IF rec.command THEN rec.stack ELSE PopFinished(rec.stack, store)
        cleaned == [rec EXCEPT !.stack = stk]
    IN IF rec.checkpoint
       THEN IF stk # <<>> \/ rec.services # <<>> \/ rec.command
            THEN [job |-> [cleaned EXCEPT !.command = TRUE, !.stack = <<>>,
                                          !.services = <<>>,
                                          !.remainingRetryCount = IF @ > 0 THEN @ - 1 ELSE 0],
                  deleted |-> Descendants(stk, store)]
            ELSE [job |-> [cleaned EXCEPT !.checkpoint = FALSE], deleted |-> {}]
       ELSE [job |-> cleaned, deleted |-> {}]

Finish(b, result) ==
    /\ bsJobs' = Del(bsJobs, b)
    /\ bsHidden' = bsHidden \ {b}
    /\ bsUpdated' = Append(bsUpdated, <<b, result>>)
    /\ UNCHANGED nextBatchID

\* a worker runs an ordinary job to its end
WorkerSucceeds ==
    /\ InLoop
    /\ \E b \in DOMAIN bsJobs :
          LET j == bsJobs[b]
          IN /\ j \notin ServiceJobs
             /\ IF j \notin DOMAIN jobStore
                THEN Finish(b, 1) /\ UNCHANGED <<jobStore, nextJobID>>
                ELSE LET p == WorkerPrepare(jobStore[j], jobStore)
                         ran == p.job.command
                         creates == ran /\ p.job.checkpoint
                         child == JobWrapper(TRUE, FALSE, <<>>, <<>>, 1,
                                             p.job.remainingRetryCount)
                         after == IF ~ran THEN p.job
                                  ELSE [p.job EXCEPT
                                          !.command = FALSE,
                                          !.stack = IF creates
                                                    THEN << <<<<nextJobID, NoPred>>>> >>
                                                    ELSE @]
                         kept == [x \in (DOMAIN jobStore) \ p.deleted |-> jobStore[x]]
                         born == IF creates THEN Put(kept, nextJobID, child) ELSE kept
                     IN /\ Finish(b, 0)
                        /\ nextJobID' = IF creates THEN nextJobID + 1 ELSE nextJobID
                        /\ jobStore' =
                              IF after.stack = <<>> /\ (ran => after.services = <<>>)
                              THEN Del(born, j)
                              ELSE Put(born, j, after)
    /\ UNCHANGED <<files, mem, toilVars, buildVars, leaderVars, pc, localUpdatedJobs,
                   failure, smVars, terminate, smThreadVars, statsAlive, auxVars, faults, histVars>>

\* a job fails and its worker records the failure: a retry less, exit 0
WorkerFails ==
    /\ InLoop
    /\ faults < MaxFaults
    /\ \E b \in DOMAIN bsJobs :
          LET j == bsJobs[b]
              p == WorkerPrepare(jobStore[j], jobStore)
              kept == [x \in (DOMAIN jobStore) \ p.deleted |-> jobStore[x]]
          IN /\ j \in DOMAIN jobStore
             /\ Finish(b, 0)
             /\ jobStore' = Put(kept, j, setupJobAfterFailure(p.job))
    /\ faults' = faults + 1
    /\ UNCHANGED <<files, mem, toilVars, buildVars, leaderVars, pc, localUpdatedJobs,
                   failure, smVars, terminate, smThreadVars, statsAlive, auxVars, histVars, nextJobID>>

\* a batch job ends with a nonzero exit code and its worker records nothing
BatchJobFails ==
    /\ InLoop
    /\ faults < MaxFaults
    /\ \E b \in DOMAIN bsJobs : Finish(b, 1)
    /\ faults' = faults + 1
    /\ UNCHANGED <<jobStore, files, mem, toilVars, buildVars, leaderVars, pc,
                   localUpdatedJobs, failure, smVars, terminate, smThreadVars, statsAlive, auxVars,
                   histVars, nextJobID>>

\* a service job is up: it deletes its start flag
ServiceStarts ==
    /\ InLoop
    /\ \E b \in DOMAIN bsJobs :
          /\ bsJobs[b] \in ServiceJobs
          /\ StartFlag(bsJobs[b]) \in files
          /\ files' = files \ {StartFlag(bsJobs[b])}
    /\ UNCHANGED <<jobStore, mem, toilVars, buildVars, leaderVars, pc, localUpdatedJobs,
                   failure, smVars, terminate, smThreadVars, bsVars, statsAlive, auxVars, faults,
                   histVars, nextJobID>>

\* a service job finds its terminate flag gone and ends: with success if its
\* error flag is still there, else with a failure that its worker records
ServiceStops ==
    /\ InLoop
    /\ \E b \in DOMAIN bsJobs :
          LET j == bsJobs[b]
          IN /\ j \in ServiceJobs
             /\ j \in DOMAIN jobStore
             /\ TerminateFlag(j) \notin files
             /\ files' = files \ {StartFlag(j)}
             /\ Finish(b, 0)
             /\ jobStore' = IF ErrorFlag(j) \in files THEN Del(jobStore, j)
                            ELSE Put(jobStore, j, setupJobAfterFailure(jobStore[j]))
    /\ UNCHANGED <<mem, toilVars, buildVars, leaderVars, pc, localUpdatedJobs, failure,
                   smVars, terminate, smThreadVars, statsAlive, auxVars, faults, histVars, nextJobID>>

\* the batch system stops listing a job among its issued jobs
BatchJobGoesMissing ==
    /\ InLoop
    /\ faults < MaxFaults
    /\ \E b \in (DOMAIN bsJobs) \ bsHidden : bsHidden' = bsHidden \cup {b}
    /\ faults' = faults + 1
    /\ UNCHANGED <<jobStore, files, mem, toilVars, buildVars, leaderVars, pc,
                   localUpdatedJobs, failure, smVars, terminate, smThreadVars, bsJobs,
                   bsUpdated, nextBatchID, statsAlive, auxVars, histVars, nextJobID>>

\* the batch system lists the job again
BatchJobReappears ==
    /\ InLoop
    /\ \E b \in bsHidden : bsHidden' = bsHidden \ {b}
    /\ UNCHANGED <<jobStore, files, mem, toilVars, buildVars, leaderVars, pc,
                   localUpdatedJobs, failure, smVars, terminate, smThreadVars, bsJobs,
                   bsUpdated, nextBatchID, statsAlive, auxVars, faults, histVars, nextJobID>>

\* the stats and logging thread dies
StatsThreadDies ==
    /\ InLoop
    /\ faults < MaxFaults
    /\ statsAlive
    /\ statsAlive' = FALSE
    /\ faults' = faults + 1
    /\ UNCHANGED <<jobStore, files, mem, toilVars, buildVars, leaderVars, pc,
                   localUpdatedJobs, failure, smVars, terminate, smThreadVars, bsVars,
                   auxVars, histVars, nextJobID>>

\* the stats and logging thread finds its stop event set, reads what is left
\* and ends
StatsThreadStops ==
    /\ stop
    /\ statsAlive
    /\ statsAlive' = FALSE
    /\ UNCHANGED <<jobStore, files, mem, toilVars, buildVars, leaderVars, pc,
                   localUpdatedJobs, failure, smVars, terminate, smThreadVars, bsVars,
                   auxVars, faults, histVars, nextJobID>>

\* the thread of the cluster scaler dies
ClusterScalerDies ==
    /\ InLoop
    /\ faults < MaxFaults
    /\ scalerAlive
    /\ scalerAlive' = FALSE
    /\ faults' = faults + 1
    /\ UNCHANGED <<jobStore, files, mem, toilVars, buildVars, leaderVars, pc,
                   localUpdatedJobs, failure, smVars, terminate, smThreadVars, bsVars,
                   statsAlive, clusterScaler, jobStoreClass, maxJobDuration, stop, calls, histVars, nextJobID>>

Environment ==
    \/ WorkerSucceeds \/ WorkerFails \/ BatchJobFails \/ ServiceStarts \/ ServiceStops
    \/ BatchJobGoesMissing \/ BatchJobReappears \/ StatsThreadDies \/ StatsThreadStops
    \/ ClusterScalerDies

Leader ==
    \/ StartServiceManager \/ StartStatsAndLogging \/ StartClusterScaler
    \/ TakeUpdatedJobs \/ ProcessUpdatedJob \/ ExitCheck \/ StartServiceJobs
    \/ CollectReadyJobs \/ PollEvent \/ PollQuiet \/ RescueJobs \/ HealthCheck
    \/ ConsistencyCheck \/ ShutdownClusterScaler \/ ShutdownStatsAndLogging
    \/ JoinStatsAndLogging \/ ShutdownServiceManager \/ RunEnd

Next == Build \/ Leader \/ ServiceManagerThread \/ Environment

Spec == Init /\ [][Next]_vars

\* the threads keep running: the leader takes its next step, the thread of
\* the service manager takes its next step, a worker runs its batch job to
\* the end, a service that is up deletes its start flag, a service that
\* finds its terminate flag gone ends, the stats and logging thread ends when
\* its stop event is set
Fairness ==
    /\ WF_vars(Build)
    /\ WF_vars(Leader)
    /\ WF_vars(ServiceManagerThread)
    /\ WF_vars(WorkerSucceeds)
    /\ WF_vars(ServiceStarts)
    /\ WF_vars(ServiceStops)
    /\ WF_vars(StatsThreadStops)

\* the workflows under which progress is checked: the chain, the job with a
\* service and a child, the job with two service groups, the diamond with a
\* sibling
WorkflowsFair(r) == {Linear(r), Service(r), TwoGroups(0), DiamondWithSibling}

InitFair ==
    \E r \in 0..MaxRetry : \E store \in WorkflowsFair(r) :
       \E provisioner \in Provisioners(store) : \E class \in JobStoreClasses(store) :
          \E duration \in MaxJobDurations(store) :
             InitFor(store, FALSE, EmptyMap, provisioner, class, duration)

SpecFair == InitFair /\ [][Next]_vars /\ Fairness

\* the construction of the ToilState alone, done twice
NextRebuild == Build \/ Rebuild

SpecRebuild == Init /\ [][NextRebuild]_vars

(***************************************************************************)
(* Properties.                                                             *)
(***************************************************************************)
\* C1: whenever innerLoop has left its loop through the exit criterion,
\* updatedJobs, successorCounts, successorJobStoreIDToPredecessorJobs,
\* serviceJobStoreIDToPredecessorJob and servicesIssued are all empty, so
\* none of the five consistency assertions after the loop fails.
C1_IndicesEmptyOnExit ==
    /\ pc = "exited" =>
          /\ updatedJobs = {}
          /\ DOMAIN successorCounts = {}
          /\ DOMAIN successorJobStoreIDToPredecessorJobs = {}
          /\ DOMAIN serviceJobStoreIDToPredecessorJob = {}
          /\ DOMAIN servicesIssued = {}
    /\ failure \notin {"AssertionError:886", "AssertionError:887", "AssertionError:888",
                       "AssertionError:889", "AssertionError:890"}

\* the loop is left after jobs failed for good and a job was left with
\* failed successors
C1_Witness ==
    /\ pc = "exited"
    /\ faults > 0
    /\ totalFailedJobs # {}
    /\ hasFailedSuccessors # {}

\* the job records of the join successors: those with several predecessors
IsJoin(jw) == jw.predecessorNumber > 1
AllPredecessorsRecorded(jw) ==
    Cardinality(jw.predecessorsFinished) = jw.predecessorNumber

\* the jobs other than the processed one that a step of the loop over the
\* updated jobs issues: the successors that the step schedules
ScheduledSuccessors ==
    {jobBatchSystemIDToIssuedJob'[b].jobStoreID :
        b \in (DOMAIN jobBatchSystemIDToIssuedJob') \ DOMAIN jobBatchSystemIDToIssuedJob}
    \ {u[1] : u \in localUpdatedJobs \ localUpdatedJobs'}

\* C2: a join successor with predecessorNumber = k is in updatedJobs during
\* state reconstruction only when exactly k distinct predecessor IDs are in
\* its predecessorsFinished, and the successor-scheduling step of the main
\* loop issues it only then.
C2_JoinCorrectness ==
    /\ [](pc \in {"build", "start"} =>
             \A u \in updatedJobs :
                 IsJoin(mem[u[1]]) => AllPredecessorsRecorded(mem[u[1]]))
    /\ [][pc = "process" =>
             \A s \in ScheduledSuccessors :
                 IsJoin(jobStore[s]) =>
                     /\ s \in DOMAIN mem'
                     /\ AllPredecessorsRecorded(mem'[s])]_vars

\* the join of the diamond is issued with one predecessor recorded by the
\* reconstruction and the other by the main loop
C2_Witness ==
    /\ \E b \in DOMAIN jobBatchSystemIDToIssuedJob :
          jobBatchSystemIDToIssuedJob[b].jobStoreID = 4
    /\ 4 \in DOMAIN mem
    /\ mem[4].predecessorNumber = 2
    /\ mem[4].predecessorsFinished = {3, Edge(2, 4)}

\* the jobs that a step of the leader issues to the batch system
NewlyIssued ==
    {jobBatchSystemIDToIssuedJob'[b].jobStoreID :
        b \in (DOMAIN jobBatchSystemIDToIssuedJob') \ DOMAIN jobBatchSystemIDToIssuedJob}

\* the descendants of a job the leader holds: the jobs below its stack
DescendantsOf(j) ==
    UNION {found.successors : found \in getSuccessors(mem[j], {}, jobStore)}

RestartableCheckpoint(j) == mem[j].checkpoint /\ mem[j].remainingRetryCount > 0

\* C3 as stated: once J is in hasFailedSuccessors no descendant of J is
\* issued, unless J is a checkpoint job with retries left.
C3_NoDescendantIssued ==
    [][\A j \in hasFailedSuccessors :
          ~RestartableCheckpoint(j) => NewlyIssued \cap DescendantsOf(j) = {}]_vars

\* C3, amended: once J is in hasFailedSuccessors the step that processes J
\* schedules none of its successors, and no job below a job that failed for
\* good (no member of failedSuccessors) is ever issued; the branches of J
\* that are running go on, and their successors are issued.
C3_SubtreeContainment ==
    /\ [][pc = "process" =>
             \A u \in localUpdatedJobs \ localUpdatedJobs' :
                 u[1] \in hasFailedSuccessors => ScheduledSuccessors = {}]_vars
    /\ [][NewlyIssued \cap failedSuccessors = {}]_vars

\* job 1 had the successor groups {2} and then {3}: job 2 failed for good,
\* job 1 was processed with job 3 still on its stack, and the loop is left
\* without job 3 having run
C3_Witness ==
    /\ pc = "exited"
    /\ 2 \in totalFailedJobs
    /\ 1 \in hasFailedSuccessors \cap totalFailedJobs
    /\ 3 \in failedSuccessors \cap DOMAIN jobStore
    /\ jobStore[3].command

\* C4: every job record the leader holds has at most predecessorNumber
\* entries in predecessorsFinished, during the reconstruction and in the
\* main loop, and the assertions of this bound (in
\* processSuccessorWithMultiplePredecessors and in the scheduling of the
\* successors) never fail.
C4_PredecessorsFinishedBound ==
    /\ \A j \in DOMAIN mem :
          Cardinality(mem[j].predecessorsFinished) <= mem[j].predecessorNumber
    /\ failure \notin {"AssertionError:243", "AssertionError:772"}

\* both predecessors of the join of the diamond were recorded by the main
\* loop, the join is not waiting any more
C4_Witness ==
    /\ pc \in {"process", "exit"}
    /\ 4 \in DOMAIN mem
    /\ mem[4].predecessorsFinished = {Edge(2, 4), Edge(3, 4)}
    /\ mem[4].predecessorNumber = 2
    /\ 4 \notin jobsToBeScheduledWithMultiplePredecessors

\* the jobs with a pending successor: a successor they registered that has
\* neither finished nor failed
HasPendingSuccessor(j) ==
    \E s \in DOMAIN successorJobStoreIDToPredecessorJobs :
        InList(successorJobStoreIDToPredecessorJobs[s], j)

\* C5: in the main loop and after it successorCounts holds no negative or
\* zero value, a job is a key of successorCounts exactly if it has a pending
\* successor, and the assertions that a decremented count is >= 0 never fail.
C5_SuccessorCounts ==
    /\ pc \notin {"build", "failed"} =>
          /\ \A j \in DOMAIN successorCounts : successorCounts[j] >= 1
          /\ \A j \in (DOMAIN mem) \cup (DOMAIN successorCounts) :
                 j \in DOMAIN successorCounts <=> HasPendingSuccessor(j)
    /\ failure \notin {"AssertionError:757", "AssertionError:1182"}

\* job 2 scheduled two successors, one of them has finished or failed and
\* the other is pending
C5_Witness ==
    /\ pc = "top"
    /\ 2 \in DOMAIN successorCounts
    /\ Len(Last(mem[2].stack)) = 2
    /\ successorCounts[2] = 1

\* the jobs that a step adds to totalFailedJobs
NewlyFailed == totalFailedJobs' \ totalFailedJobs

RetriesExhausted(j) == mem[j].remainingRetryCount = 0
ServiceErrorFlagGone(j) ==
    j \in DOMAIN serviceJobStoreIDToPredecessorJob /\ ErrorFlag(j) \notin files
\* the job is gone from the job store: what the ghost-job path finds
GoneFromJobStore(j) == j \notin DOMAIN jobStore

\* C6 as stated: a job is added to totalFailedJobs only if it exhausted its
\* retries, or is a service job whose error flag is gone, or is a ghost job.
C6_OnlyExhaustedServiceOrGhost ==
    [][\A j \in NewlyFailed :
          RetriesExhausted(j) \/ ServiceErrorFlagGone(j) \/ GoneFromJobStore(j)]_vars

\* C6, amended: a job is added to totalFailedJobs only by the main loop's
\* processing of the job, when the job has failed successors and is not a
\* checkpoint job with retries left (whatever its own retry count), or has
\* no retries left, or is a service job whose error flag is gone; the step
\* that handles a finished job, the ghost-job path included, adds none.
C6_TotalFailedJobs ==
    /\ [][\A j \in NewlyFailed :
             /\ pc = "process"
             /\ <<j, 0>> \in localUpdatedJobs \/ <<j, 1>> \in localUpdatedJobs
             /\ \/ j \in hasFailedSuccessors /\ ~RestartableCheckpoint(j)
                \/ RetriesExhausted(j)
                \/ ServiceErrorFlagGone(j)]_vars
    /\ [][pc = "poll" => NewlyFailed = {}]_vars

\* a job with retries left is in totalFailedJobs because a successor of it
\* failed, and a ghost job was handled without being added
C6_Witness ==
    /\ \E j \in totalFailedJobs \cap hasFailedSuccessors :
          mem[j].remainingRetryCount > 0 /\ ~mem[j].checkpoint
    /\ \E n \in lastFinished : n[4] = "ghost" /\ n[2] \notin totalFailedJobs
    /\ failure = "none"

\* C7: innerLoop leaves its loop only at an exit check where updatedJobs is
\* empty, no job is issued to the batch system and the service manager's
\* counter is 0; it leaves it at the first exit check where the three hold;
\* and when it has left it the leader tracks no batch job and the service
\* manager holds no job.
C7_ExitCriterion ==
    /\ [][pc # "exited" /\ pc' = "exited" => pc = "exit" /\ ExitCriterion]_vars
    /\ [][pc = "exit" /\ pc' # "exit" /\ ExitCriterion => pc' = "exited"]_vars
    /\ [](pc = "exited" =>
             /\ DOMAIN jobBatchSystemIDToIssuedJob = {}
             /\ jobWrappersWithServicesBeingStarted = {}
             /\ jobWrappersWithServicesToStart = <<>>
             /\ smPc = "idle")

\* the loop is left after a job's service was started by the service manager
\* and was stopped again
C7_Witness ==
    /\ pc = "exited"
    /\ StartFlag(8) \notin files
    /\ TerminateFlag(8) \notin files
    /\ ErrorFlag(8) \in files
    /\ nextBatchID >= 3

\* C8: a batch job that the leader tracks has been found missing by fewer
\* than killAfterNTimesMissing rescue scans: the scan that finds it missing
\* for the killAfterNTimesMissing-th time kills it, runs processFinishedJob
\* with result 1 for it, and its entry leaves the missing hash.
C8_RescueBound ==
    /\ \A b \in DOMAIN timesMissing : timesMissing[b] < killAfterNTimesMissing
    /\ \A b \in lastScan.killed :
          /\ \E n \in lastFinished : n[1] = b /\ n[3] = 1
          /\ b \notin DOMAIN reissueMissingJobs_missingHash
          /\ b \notin DOMAIN jobBatchSystemIDToIssuedJob
          /\ b \notin DOMAIN bsJobs

\* a rescue scan has just killed a job that it found missing
C8_Witness ==
    /\ pc = "health"
    /\ lastScan.ran
    /\ lastScan.killed # {}
    /\ \A b \in lastScan.killed : \E n \in lastFinished : n[1] = b /\ n[3] = 1

\* C9: after a rescue scan no batch job that the batch system lists as issued
\* is counted in the missing hash: a job that has turned up again is cleared,
\* so that only consecutive misses count towards the kill.
C9_ReappearedJobsCleared ==
    lastScan.ran =>
        (DOMAIN reissueMissingJobs_missingHash) \cap lastScan.reported = {}

\* the start flags of all services of all service groups of a job
StartFlagsOf(jw) ==
    {jw.services[g][k][2] : <<g, k>> \in {<<g, k>> \in (1..2) \X (1..2) :
                                            g <= Len(jw.services)
                                            /\ k <= Len(jw.services[g])}}

\* C10: a job is on the queue of the jobs whose services have started (the
\* queue that getJobWrapperWhoseServicesAreRunning reads) only if the start
\* flag file of every service of every service group of the job is gone,
\* whether the terminate event is set or not.
C10_ReadyOnlyWhenServicesRun ==
    \A i \in 1..Len(jobWrappersWithServicesThatHaveStarted) :
        StartFlagsOf(mem[jobWrappersWithServicesThatHaveStarted[i]]) \cap files = {}

\* the start flags of the services of the groups before group n of a job
StartFlagsBefore(jw, n) ==
    {jw.services[g][k][2] : <<g, k>> \in {<<g, k>> \in (1..2) \X (1..2) :
                                            g < n /\ g <= Len(jw.services)
                                            /\ k <= Len(jw.services[g])}}

\* C11: whenever a service is put on the queue of services to start, it is
\* the service the thread has reached in the declaration order of the job's
\* service groups, and the start flag of every service of the groups before
\* its group has disappeared (those services run).
C11_GroupsInOrder ==
    [][Len(serviceJobWrappersToStart') > Len(serviceJobWrappersToStart) =>
          /\ smPc = "put"
          /\ Last(serviceJobWrappersToStart')[1] = mem[smJob].services[smGroup][smIdx][1]
          /\ StartFlagsBefore(mem[smJob], smGroup) \cap files = {}]_vars

\* the number of services of a scheduled job that the thread has not put on
\* the queue of services to start yet
NotYetPut(j) ==
    LET services == mem[j].services
    IN IF InList(jobWrappersWithServicesToStart, j) THEN SeqSum(services)
       ELSE IF j = smJob /\ smPc \in {"put", "crashed"}
       THEN (Len(services[smGroup]) - smIdx + 1)
               + SeqSum(SubSeq(services, smGroup + 1, Len(services)))
       ELSE IF j = smJob /\ smPc = "wait"
       THEN SeqSum(SubSeq(services, smGroup + 1, Len(services)))
       ELSE 0

RECURSIVE SumNotYetPut(_)
SumNotYetPut(X) ==
    IF X = {} THEN 0
    ELSE LET x == CHOOSE y \in X : TRUE IN NotYetPut(x) + SumNotYetPut(X \ {x})

\* the scheduled jobs and the services of theirs that have not been handed
\* back to the leader
InFlight ==
    Cardinality(jobWrappersWithServicesBeingStarted)
       + Len(serviceJobWrappersToStart)
       + SumNotYetPut(jobWrappersWithServicesBeingStarted)

RECURSIVE SumServicesPlusOne(_)
SumServicesPlusOne(X) ==
    IF X = {} THEN 0
    ELSE LET x == CHOOSE y \in X : TRUE
         IN SeqSum(mem[x].services) + 1 + SumServicesPlusOne(X \ {x})

\* what the call of a get method in a step of the leader hands back: the
\* element that the step takes from its queue
HandedBack ==
    IF pc = "startsvc" /\ Len(serviceJobWrappersToStart') < Len(serviceJobWrappersToStart)
    THEN 1
    ELSE IF /\ pc = "collect"
            /\ Len(jobWrappersWithServicesThatHaveStarted')
                  < Len(jobWrappersWithServicesThatHaveStarted)
    THEN 1
    ELSE 0

\* C12: serviceJobsIssuedToServiceManager grows by the number of services of
\* J plus one when J is scheduled, shrinks by one for each service and each
\* job that a get method returns and changes in no other step (a get that
\* returns None leaves it alone); it is never negative, and it counts the
\* scheduled jobs and services not handed back yet, so that it is zero
\* exactly when all of them have been handed back.
C12_InFlightCounter ==
    /\ [](serviceJobsIssuedToServiceManager >= 0)
    /\ [](serviceJobsIssuedToServiceManager = InFlight)
    /\ [](serviceJobsIssuedToServiceManager = 0 <=>
             /\ jobWrappersWithServicesBeingStarted = {}
             /\ serviceJobWrappersToStart = <<>>)
    /\ [][serviceJobsIssuedToServiceManager' =
             serviceJobsIssuedToServiceManager
                + SumServicesPlusOne(jobWrappersWithServicesBeingStarted'
                                        \ jobWrappersWithServicesBeingStarted)
                - HandedBack]_vars

\* a job was scheduled with its services, and it and they were handed back
C12_Witness ==
    /\ DOMAIN servicesIssued # {}
    /\ pc = "poll"
    /\ serviceJobsIssuedToServiceManager = 0
    /\ jobWrappersWithServicesBeingStarted = {}


\* a job record that is runnable as it stands: it has a command, a
\* checkpoint or services, or nothing left on its stack
IsRunnable(rec) ==
    rec.command \/ rec.checkpoint \/ rec.services # <<>> \/ rec.stack = <<>>

\* the successors in the top group of the stack of a record
TopSuccessors(rec) == {Last(rec.stack)[i][1] : i \in 1..Len(Last(rec.stack))}

\* the jobs that a traversal from the jobs V reaches: it goes on below the
\* jobs that are not runnable, to a successor with one predecessor at once and
\* to a successor with several when all of them have finished or been passed
RECURSIVE Traversal(_, _)
Traversal(store, V) ==
    LET inner == {J \in V : ~IsRunnable(store[J])}
        passed(s) == {P \in inner : s \in TopSuccessors(store[P])}
        new == {s \in (DOMAIN store) \ V :
                   \E J \in inner : \E i \in 1..Len(Last(store[J].stack)) :
                      /\ Last(store[J].stack)[i][1] = s
                      /\ \/ Last(store[J].stack)[i][2] = NoPred
                         \/ Cardinality(store[s].predecessorsFinished \cup passed(s))
                               = store[s].predecessorNumber}
    IN IF new = {} THEN V ELSE Traversal(store, V \cup new)

\* C13: when the construction of the ToilState has succeeded, updatedJobs is
\* the set of the pairs (J, 0) of the runnable jobs that the traversal from
\* the root reaches, nothing below a runnable job having been visited through
\* it, and every other job J reached has successorCounts[J] equal to the size
\* of the top group of its stack and is among the recorded predecessors of
\* each successor in that group; no other job has a successor count.
C13_BuildResult ==
    pc = "start" =>
       LET reached == Traversal(jobStore, {RootJob})
       IN /\ updatedJobs = {<<J, 0>> : J \in {K \in reached : IsRunnable(jobStore[K])}}
          /\ DOMAIN successorCounts = {K \in reached : ~IsRunnable(jobStore[K])}
          /\ \A J \in DOMAIN successorCounts :
                /\ successorCounts[J] = Len(Last(jobStore[J].stack))
                /\ \A s \in TopSuccessors(jobStore[J]) :
                      /\ s \in DOMAIN successorJobStoreIDToPredecessorJobs
                      /\ InList(successorJobStoreIDToPredecessorJobs[s], J)

\* the construction has succeeded on a workflow in which three jobs wait for
\* successors and one job is left waiting for a predecessor that is runnable
C13_Witness ==
    /\ pc = "start"
    /\ updatedJobs # {}
    /\ Cardinality(DOMAIN successorCounts) >= 2
    /\ jobsToBeScheduledWithMultiplePredecessors # {}

\* C14: a second construction of the ToilState on the same root and job
\* store (and job cache) ends with the same updatedJobs, as pairs of job ID
\* and status, and the same successorCounts as the first.
C14_IdempotentRebuild ==
    pc = "start" /\ firstBuild.done =>
       /\ updatedJobs = firstBuild.updatedJobs
       /\ successorCounts = firstBuild.successorCounts

\* the second construction is over, on a workflow with a job that is left
\* waiting for a predecessor and with a job cache
C14_Witness ==
    /\ pc = "start"
    /\ firstBuild.done
    /\ useCache
    /\ updatedJobs # {}
    /\ \E s \in DOMAIN mem :
          /\ mem[s].predecessorsFinished # {}
          /\ Cardinality(mem[s].predecessorsFinished) < mem[s].predecessorNumber

\* the construction is about to ask the job cache for a successor that the
\* cache does not hold and the job store does
CacheMiss(s) ==
    /\ pc = "build"
    /\ useCache
    /\ Last(buildStack).idx >= 1
    /\ Last(buildStack).idx <= Len(Last(mem[Last(buildStack).job].stack))
    /\ s = Last(mem[Last(buildStack).job].stack)[Last(buildStack).idx][1]
    /\ s \notin DOMAIN successorJobStoreIDToPredecessorJobs
    /\ s \notin DOMAIN jobCache
    /\ s \in DOMAIN jobStore

\* C15: when a job cache is supplied and a successor is missing from it, the
\* successor is loaded from the job store and the construction goes on: the
\* miss does not end the construction with an exception.
C15_CacheMissFallsBack ==
    [][\A s \in DOMAIN jobStore :
          CacheMiss(s) => /\ pc' # "failed"
                          /\ s \in DOMAIN mem'
                          /\ mem'[s].stack = jobStore[s].stack]_vars

\* the runs that the leader's step finds ended with a nonzero result while
\* the record of the job exists
FailedRuns == {n \in lastFinished' : n[3] # 0 /\ n[4] = "reloaded"}

\* the pair (job, result) that a step of the loop over the updated jobs
\* examines
Examined == localUpdatedJobs \ localUpdatedJobs'

\* C16: (1) when a run ends with a nonzero result and the record exists, the
\* record with one retry less is written to the job store before the job is
\* put in updatedJobs with that result; (2) when a job is examined with a
\* nonzero result it is issued again only if it has retries left and, being a
\* service job, its error flag exists, and else it is in totalFailedJobs
\* after the step; so a job without retries is not issued after a failed run.
C16_RetryAfterFailure ==
    /\ [][lastFinished' # lastFinished =>
             \A n \in FailedRuns :
                /\ n[2] \in DOMAIN jobStore /\ n[2] \in DOMAIN jobStore'
                /\ jobStore'[n[2]] = setupJobAfterFailure(jobStore[n[2]])
                /\ jobStore[n[2]].remainingRetryCount > 0 =>
                      jobStore'[n[2]].remainingRetryCount
                         = jobStore[n[2]].remainingRetryCount - 1
                /\ mem'[n[2]] = jobStore'[n[2]]
                /\ <<n[2], n[3]>> \in updatedJobs']_vars
    /\ [][pc = "process" =>
             \A u \in Examined :
                (u[2] # 0 /\ u[1] \notin jobWrappersWithServicesBeingStarted) =>
                   IF u[1] \in NewlyIssued
                   THEN /\ mem[u[1]].remainingRetryCount > 0
                        /\ u[1] \in DOMAIN serviceJobStoreIDToPredecessorJob
                              => ErrorFlag(u[1]) \in files
                   ELSE u[1] \in totalFailedJobs']_vars

\* a run has ended with a nonzero result, the record with one retry less is
\* in the job store and the job, which has a retry left, is in the updated
\* jobs that the loop is examining, with that result
C16_Witness ==
    /\ pc = "process"
    /\ \E u \in localUpdatedJobs :
          /\ u[2] # 0
          /\ u[1] \notin hasFailedSuccessors
          /\ u[1] \in DOMAIN jobStore
          /\ mem[u[1]] = jobStore[u[1]]
          /\ mem[u[1]].remainingRetryCount > 0

\* the loop examines job A, which has failed successors, no services issued
\* and no successor running, and is a checkpoint job with a retry left
RestartCase(A) ==
    /\ pc = "process"
    /\ \E u \in Examined : u[1] = A
    /\ A \notin jobWrappersWithServicesBeingStarted
    /\ A \in hasFailedSuccessors
    /\ A \notin DOMAIN servicesIssued
    /\ A \notin DOMAIN successorCounts
    /\ RestartableCheckpoint(A)

\* the step issues job A with the memory and the preemptable flag of its
\* JobWrapper and does not mark it totally failed
ReissuedWithStoredResources(A) ==
    /\ \E b \in (DOMAIN jobBatchSystemIDToIssuedJob') \ DOMAIN jobBatchSystemIDToIssuedJob :
          jobBatchSystemIDToIssuedJob'[b] =
             [jobStoreID |-> A, memory |-> mem[A].memory,
              preemptable |-> mem[A].preemptable]
    /\ A \notin totalFailedJobs'

\* C17 as stated: in that case the leader sets the command of A to its
\* checkpoint command and issues A again with its stored resources instead
\* of marking it totally failed.
C17_RestartSetsCommand ==
    [][\A A \in DOMAIN mem :
          RestartCase(A) => /\ mem'[A].command = mem[A].checkpoint
                            /\ ReissuedWithStoredResources(A)]_vars

\* C17: in that case the leader issues A again with its stored resources
\* instead of marking it totally failed and leaves the JobWrapper of A as it
\* is; the command of a checkpoint job is set to its checkpoint command when
\* the construction of the ToilState finds the job.
C17_CheckpointRestart ==
    /\ [][\A A \in DOMAIN mem :
             RestartCase(A) => /\ mem'[A] = mem[A]
                               /\ ReissuedWithStoredResources(A)]_vars
    /\ [][pc = "build" =>
             \A u \in updatedJobs' \ updatedJobs :
                mem[u[1]].checkpoint => mem'[u[1]].command = mem[u[1]].checkpoint]_vars

\* a checkpoint job with failed successors has been issued again, without a
\* command in its JobWrapper
C17_Witness ==
    \E b \in DOMAIN jobBatchSystemIDToIssuedJob :
       LET A == jobBatchSystemIDToIssuedJob[b].jobStoreID
       IN /\ A \in hasFailedSuccessors
          /\ A \notin totalFailedJobs
          /\ mem[A].checkpoint
          /\ ~mem[A].command

\* the jobs the leader has recorded as waiting for job j: the owner of a
\* service job, the predecessors of another job
DirectPredecessors(j) ==
    IF j \in DOMAIN serviceJobStoreIDToPredecessorJob
    THEN {serviceJobStoreIDToPredecessorJob[j]}
    ELSE IF j \in DOMAIN successorJobStoreIDToPredecessorJobs
         THEN SeqToSet(successorJobStoreIDToPredecessorJobs[j])
         ELSE {}

\* the jobs that the step puts in updatedJobs
Requeued == {u[1] : u \in updatedJobs' \ updatedJobs}

\* each direct predecessor of a job that totally fails is added to
\* hasFailedSuccessors
PredecessorsMarked ==
    \A j \in NewlyFailed : DirectPredecessors(j) \subseteq hasFailedSuccessors'

\* a step in which a job totally fails kills no batch job
SiblingsSurvive ==
    NewlyFailed # {} =>
       /\ DOMAIN bsJobs \subseteq DOMAIN bsJobs'
       /\ DOMAIN jobBatchSystemIDToIssuedJob \subseteq DOMAIN jobBatchSystemIDToIssuedJob'

\* the loop examines job p, which has failed successors, none of them
\* pending, and no checkpoint
PropagationCase(p) ==
    /\ pc = "process"
    /\ \E u \in Examined : u[1] = p
    /\ p \notin jobWrappersWithServicesBeingStarted
    /\ p \in hasFailedSuccessors
    /\ p \notin DOMAIN successorCounts
    /\ ~mem[p].checkpoint

\* C18 as stated: when a job totally fails its direct predecessors are added
\* to hasFailedSuccessors and no issued job is killed; a job with failed
\* successors is put in updatedJobs only when it has no pending successor
\* left, and when it is examined then, having no checkpoint, it is marked
\* totally failed.
C18_ReexaminedOnlyAtZero ==
    /\ [][PredecessorsMarked /\ SiblingsSurvive]_vars
    /\ [][\A p \in Requeued \cap hasFailedSuccessors' :
             p \notin DOMAIN successorCounts']_vars
    /\ [][\A p \in DOMAIN mem : PropagationCase(p) => p \in totalFailedJobs']_vars

\* the terminate and error flags of the services issued for job p
StopFlagsOf(p) ==
    UNION {{servicesIssued[p][x][2], servicesIssued[p][x][3]} : x \in DOMAIN servicesIssued[p]}

\* C18: when a job totally fails its direct predecessors are added to
\* hasFailedSuccessors (unless the walk over its descendants raises, which
\* ends the run) and no issued job is killed; a job with failed
\* successors is put in updatedJobs only when it has no pending successor
\* left or when the last of its services has ended; when it is examined
\* while successors are pending nothing fails; when it is examined with no
\* successor pending and no checkpoint, it is marked totally failed if it has
\* no services issued, and else its services are told to stop and it is not
\* marked yet.
C18_FailurePropagation ==
    /\ [][(failure' # "NoSuchJobException:1115" => PredecessorsMarked)
          /\ SiblingsSurvive]_vars
    /\ [][\A p \in Requeued \cap hasFailedSuccessors' :
             \/ p \notin DOMAIN successorCounts'
             \/ p \in DOMAIN servicesIssued /\ p \notin DOMAIN servicesIssued']_vars
    /\ [][\A p \in DOMAIN mem :
             (/\ pc = "process"
              /\ \E u \in Examined : u[1] = p
              /\ p \notin jobWrappersWithServicesBeingStarted
              /\ p \in hasFailedSuccessors
              /\ p \notin DOMAIN servicesIssued
              /\ p \in DOMAIN successorCounts) => totalFailedJobs' = totalFailedJobs]_vars
    /\ [][\A p \in DOMAIN mem :
             PropagationCase(p) =>
                IF p \in DOMAIN servicesIssued
                THEN /\ p \notin NewlyFailed
                     /\ StopFlagsOf(p) \cap files' = {}
                ELSE p \in totalFailedJobs']_vars

\* the failure of a job has reached the root through a job in between
C18_Witness ==
    /\ pc = "exited"
    /\ RootJob \in totalFailedJobs
    /\ \E p \in totalFailedJobs \ {RootJob} : \E j \in totalFailedJobs \ {RootJob, p} :
          /\ ~mem[p].checkpoint
          /\ j \notin ServiceJobs

\* FailedJobsException, raised for the failed jobs or in place of the
\* EOFError of the load of the root job's return value
FailedJobsExceptions == {"FailedJobsException", "FailedJobsException:612"}

\* run() comes to its end without an exception from the main loop
RunEnds == pc = "join" /\ pc' = "done" /\ failure = "none"

StartCalls ==
    <<"serviceManager.start", "statsAndLogging.start">>
        \o (IF clusterScaler THEN <<"clusterScaler.start">> ELSE <<>>)

ShutdownCalls ==
    (IF clusterScaler THEN <<"clusterScaler.shutdown">> ELSE <<>>)
        \o <<"statsAndLogging.shutdown", "serviceManager.shutdown">>

IsPrefix(s, t) == Len(s) <= Len(t) /\ SubSeq(t, 1, Len(s)) = s

\* C20: run() starts the service manager, the stats aggregator and then the
\* cluster scaler (if there is one), runs innerLoop with all of them
\* started, and shuts them down in the reverse order; once the finally
\* clauses are through every auxiliary that was started has been shut down,
\* whether innerLoop returned or raised.
C20_AuxiliariesInOrder ==
    /\ IsPrefix(calls, StartCalls \o ShutdownCalls)
    /\ (InLoop \/ pc = "exited") => calls = StartCalls
    /\ pc \in {"join", "done"} => calls = StartCalls \o ShutdownCalls

\* innerLoop raised with a cluster scaler running and run() is through
C20_Witness ==
    /\ pc = "done"
    /\ clusterScaler
    /\ failure = "RuntimeError:124"
    /\ calls = <<"serviceManager.start", "statsAndLogging.start", "clusterScaler.start",
                 "clusterScaler.shutdown", "statsAndLogging.shutdown",
                 "serviceManager.shutdown">>

\* C21: in an iteration of the loop the updated jobs are taken as a snapshot
\* and the set is reset before any entry is processed; the entries
\* processed are those of the snapshot, which never grows, and an entry
\* added to updatedJobs during the iteration stays there until the next
\* drain.
C21_SnapshotAndReset ==
    [][/\ (pc = "top" /\ pc' = "process") =>
             /\ localUpdatedJobs' = updatedJobs
             /\ updatedJobs' = {}
       /\ pc = "process" =>
             /\ localUpdatedJobs' \subseteq localUpdatedJobs
             /\ Cardinality(localUpdatedJobs \ localUpdatedJobs') <= 1
             /\ updatedJobs \subseteq updatedJobs'
       /\ (pc \in {"exit", "startsvc", "collect", "poll", "health"} /\ InLoop') =>
             /\ updatedJobs \subseteq updatedJobs'
             /\ localUpdatedJobs' = localUpdatedJobs]_vars

\* an entry has been added to updatedJobs while entries of the snapshot are
\* still to be processed
C21_Witness ==
    /\ pc = "process"
    /\ localUpdatedJobs # {}
    /\ updatedJobs # {}

\* the jobs of the entries of a set of updated jobs
JobsOf(U) == {u[1] : u \in U}

\* the job records that processFinishedJob has loaded from the job store in
\* the step, each a new copy that joins the updated jobs
Reloaded == {n \in lastFinished' : n[4] = "reloaded"}

\* C22: updatedJobs never holds two entries for the same job: no two result
\* statuses for one job, and a copy of a record that processFinishedJob
\* loads joins a set that holds no entry for the job, one copy for a job.
C22_OncePerDrain ==
    /\ [](/\ \A u, v \in updatedJobs : u[1] = v[1] => u = v
          /\ \A u, v \in localUpdatedJobs : u[1] = v[1] => u = v)
    /\ [][pc = "poll" /\ pc' # "poll" =>
             \A n \in Reloaded :
                /\ n[2] \notin JobsOf(updatedJobs)
                /\ <<n[2], n[3]>> \in updatedJobs'
                /\ \A m \in Reloaded : m[2] = n[2] => m = n]_vars

\* a drain holds several jobs, one of them with a record just loaded after a
\* failure
C22_Witness ==
    /\ pc = "process"
    /\ Cardinality(JobsOf(localUpdatedJobs)) >= 2
    /\ \E u \in localUpdatedJobs : u[2] # 0

\* the predecessor records held as values of
\* successorJobStoreIDToPredecessorJobs, and the jobs issued to the batch
\* system
PredecessorRecords ==
    UNION {SeqToSet(successorJobStoreIDToPredecessorJobs[s]) :
              s \in DOMAIN successorJobStoreIDToPredecessorJobs}
IssuedJobs ==
    {jobBatchSystemIDToIssuedJob[b].jobStoreID : b \in DOMAIN jobBatchSystemIDToIssuedJob}
KnownJobs == (DOMAIN mem) \cup IssuedJobs

InExactlyOne(j) ==
    /\ j \in jobsToBeScheduledWithMultiplePredecessors
              \cup PredecessorRecords \cup JobsOf(updatedJobs)
    /\ ~(j \in jobsToBeScheduledWithMultiplePredecessors /\ j \in PredecessorRecords)
    /\ ~(j \in jobsToBeScheduledWithMultiplePredecessors /\ j \in JobsOf(updatedJobs))
    /\ ~(j \in PredecessorRecords /\ j \in JobsOf(updatedJobs))

\* C23, as claimed: between two iterations every job known to the leader is
\* in exactly one of the waiting join successors, the predecessor records
\* and the updated jobs.
C23_ExactlyOne ==
    pc = "top" => \A j \in KnownJobs : InExactlyOne(j)

\* C23: between two iterations a waiting join successor is neither a
\* predecessor record nor an updated job; a job issued to the batch system
\* is in none of the three; a predecessor record is an updated job only if
\* it is a job with services marked as having a failed successor; and every
\* job the leader holds that exists is a waiting join successor, a
\* predecessor record, an updated job, issued, with the service manager,
\* the owner of issued services or totally failed.
C23_PausePointPartition ==
    pc = "top" =>
       /\ jobsToBeScheduledWithMultiplePredecessors
             \cap (PredecessorRecords \cup JobsOf(updatedJobs)) = {}
       /\ IssuedJobs \cap (jobsToBeScheduledWithMultiplePredecessors
                              \cup PredecessorRecords \cup JobsOf(updatedJobs)) = {}
       /\ \A j \in PredecessorRecords \cap JobsOf(updatedJobs) :
             j \in hasFailedSuccessors /\ jobStore[j].services # <<>>
       /\ \A j \in (DOMAIN mem) \cap DOMAIN jobStore :
             j \in jobsToBeScheduledWithMultiplePredecessors \cup PredecessorRecords
                      \cup JobsOf(updatedJobs) \cup IssuedJobs
                      \cup jobWrappersWithServicesBeingStarted
                      \cup DOMAIN servicesIssued \cup totalFailedJobs

\* between two iterations there are a waiting join successor, predecessor
\* records and an updated job that is none of them
C23_Witness ==
    /\ pc = "top"
    /\ jobsToBeScheduledWithMultiplePredecessors # {}
    /\ PredecessorRecords # {}
    /\ JobsOf(updatedJobs) \ PredecessorRecords # {}

\* the calls of issueJob and of removeJobID in a step: the batch system
\* hands out one ID per issued job, and removeJobID is called by
\* processFinishedJob only, once in each of its calls
IssueJobCalls == nextBatchID' - nextBatchID
RemoveJobIDCalls == IF pc = "poll" /\ pc' # "poll" THEN Cardinality(lastFinished') ELSE 0
PreemptableIssued ==
    {b \in DOMAIN jobBatchSystemIDToIssuedJob : jobBatchSystemIDToIssuedJob[b].preemptable}

\* C24: the count of issued jobs grows by one with each call of issueJob and
\* falls by one with each call of removeJobID; it is the number of entries
\* of jobBatchSystemIDToIssuedJob and never negative, and the count of
\* preemptable jobs is between 0 and the count of all jobs.
C24_IssuedJobsCount ==
    /\ [](/\ jobsIssued = Cardinality(DOMAIN jobBatchSystemIDToIssuedJob)
          /\ getNumberOfJobsIssued(Here) = [err |-> "none", result |-> jobsIssued]
          /\ preemptableJobsIssued = Cardinality(PreemptableIssued)
          /\ 0 <= preemptableJobsIssued
          /\ preemptableJobsIssued <= jobsIssued)
    /\ [][jobsIssued' = jobsIssued + IssueJobCalls - RemoveJobIDCalls]_vars

\* jobs are issued, one of them preemptable, after other jobs have been
\* removed
C24_Witness ==
    /\ jobsIssued >= 2
    /\ preemptableJobsIssued >= 1
    /\ nextBatchID > jobsIssued + 2

\* the flag files of a map of services, as servicesIssued holds it for a job
StartFlagsIn(services) == {services[x][1] : x \in DOMAIN services}
TerminateFlagsIn(services) == {services[x][2] : x \in DOMAIN services}
ErrorFlagsIn(services) == {services[x][3] : x \in DOMAIN services}

\* what a call killServices(services, error) leaves, S being the state it
\* returns: the terminate flags are gone, the error flags are gone if error
\* is true, no other file and nothing else has changed
KillServicesEffect(S, services, error) ==
    /\ S.files = (files \ TerminateFlagsIn(services))
                    \ (IF error THEN ErrorFlagsIn(services) ELSE {})
    /\ StartFlagsIn(services) \cap files \subseteq S.files
    /\ S = [Here EXCEPT !.files = S.files]

\* the step of the loop over the updated jobs that does nothing but call
\* killServices for the services of job j: with error = True for a job with
\* a failed successor, with error = False for a job that has nothing left
KillsWithError(j) ==
    /\ j \notin jobWrappersWithServicesBeingStarted
    /\ j \in hasFailedSuccessors
    /\ j \in DOMAIN servicesIssued
KillsWithoutError(u) ==
    /\ u[1] \notin jobWrappersWithServicesBeingStarted
    /\ u[1] \notin hasFailedSuccessors
    /\ ~mem[u[1]].command /\ u[2] = 0
    /\ mem[u[1]].services = <<>> /\ mem[u[1]].stack = <<>>
    /\ u[1] \in DOMAIN servicesIssued

\* C25: killServices(services, error) deletes the terminate flag of every
\* listed service, the error flags only if error is true, no start flag,
\* and changes no index of the ToilState: for every map of services the
\* leader holds and either value of error, and in the steps of the loop
\* that call it.
C25_KillServices ==
    /\ [](\A p \in DOMAIN servicesIssued : \A error \in BOOLEAN :
             KillServicesEffect(killServices(Here, servicesIssued[p], error),
                                servicesIssued[p], error))
    /\ [][pc = "process" =>
            \A u \in localUpdatedJobs \ localUpdatedJobs' :
               /\ (KillsWithError(u[1]) \/ KillsWithoutError(u)) =>
                     /\ files' = (files \ TerminateFlagsIn(servicesIssued[u[1]]))
                                    \ (IF KillsWithError(u[1])
                                       THEN ErrorFlagsIn(servicesIssued[u[1]]) ELSE {})
                     /\ UNCHANGED <<toilVars, mem, jobStore>>]_vars

\* the services of a job have been told to stop without an error: their
\* terminate flags are gone, their error flags are not
C25_Witness ==
    \E p \in DOMAIN servicesIssued :
       /\ servicesIssued[p] # EmptyMap
       /\ TerminateFlagsIn(servicesIssued[p]) \cap files = {}
       /\ ErrorFlagsIn(servicesIssued[p]) \subseteq files

\* an auxiliary thread is dead: the stats and logging thread, the service
\* manager thread or the cluster scaler
DeadAuxiliary ==
    \/ ~statsAlive
    \/ smPc \notin {"idle", "put", "wait"}
    \/ clusterScaler /\ ~scalerAlive
AfterTheLoop == pc \in {"finally", "finally1", "statsjoin", "finally2", "join", "done"}

\* C26: if an auxiliary thread is dead when an iteration reaches the checks
\* at its end, innerLoop raises there and no job is issued any more; an
\* iteration is followed by another one only through these checks, and only
\* with all auxiliaries alive.
C26_FailFast ==
    [][/\ (pc = "health" /\ pc' # "health" /\ DeadAuxiliary) =>
             /\ pc' = "finally"
             /\ failure' \in {"RuntimeError:124", "RuntimeError:408", "RuntimeError:881"}
             /\ nextBatchID' = nextBatchID
       /\ AfterTheLoop =>
             /\ nextBatchID' = nextBatchID
             /\ jobBatchSystemIDToIssuedJob' = jobBatchSystemIDToIssuedJob
       /\ (pc # "top" /\ pc' = "top") =>
             \/ pc = "start2"
             \/ pc = "health" /\ ~DeadAuxiliary
       /\ (pc = "poll" /\ pc' # "poll") => pc' \in {"health", "finally"}]_vars

\* innerLoop has raised because the cluster scaler is dead, with jobs still
\* issued
C26_Witness ==
    /\ pc = "finally"
    /\ failure = "RuntimeError:881"
    /\ statsAlive
    /\ jobsIssued > 0

\* the entry u of the snapshot takes the successor-scheduling step
SchedulesSuccessors(u) ==
    /\ u[1] \notin jobWrappersWithServicesBeingStarted
    /\ u[1] \notin hasFailedSuccessors
    /\ ~mem[u[1]].command /\ u[2] = 0
    /\ mem[u[1]].services = <<>>
    /\ mem[u[1]].stack # <<>>

\* the join successors in the top group of job j that are in failedSuccessors
FailedJoins(j) ==
    {t[1] : t \in {x \in SeqToSet(Last(mem[j].stack)) :
                      x[2] # NoPred /\ x[1] \in failedSuccessors}}

\* C27: in the successor-scheduling step of job j a join successor that is
\* in failedSuccessors is not issued; j is added to hasFailedSuccessors,
\* its count of pending successors is one less for each such successor (and
\* j is re-queued without a count if none is left), and j is no longer in
\* the predecessor list of the successor.
C27_FailedJoinNotScheduled ==
    [][pc = "process" =>
          \A u \in localUpdatedJobs \ localUpdatedJobs' :
             (SchedulesSuccessors(u) /\ FailedJoins(u[1]) # {} /\ failure' = "none") =>
                LET j == u[1]
                    left == Len(Last(mem[j].stack)) - Cardinality(FailedJoins(j))
                IN /\ FailedJoins(j) \cap ScheduledSuccessors = {}
                   /\ j \in hasFailedSuccessors'
                   /\ IF left = 0
                      THEN j \notin DOMAIN successorCounts' /\ <<j, 0>> \in updatedJobs'
                      ELSE /\ j \in DOMAIN successorCounts'
                           /\ successorCounts'[j] = left
                           /\ Cardinality(ScheduledSuccessors) = left
                   /\ \A s \in FailedJoins(j) :
                         s \in DOMAIN successorJobStoreIDToPredecessorJobs' =>
                            ~InList(successorJobStoreIDToPredecessorJobs'[s], j)]_vars

\* a job has scheduled its successors but for a join successor of a failed
\* job, and waits for those it has issued
C27_Witness ==
    \E j \in hasFailedSuccessors \cap DOMAIN successorCounts :
       /\ mem[j].stack # <<>>
       /\ FailedJoins(j) # {}
       /\ successorCounts[j] = Len(Last(mem[j].stack)) - Cardinality(FailedJoins(j))
       /\ FailedJoins(j) \cap IssuedJobs = {}
       /\ \E t \in SeqToSet(Last(mem[j].stack)) : t[1] \in IssuedJobs

\* the calls of _updatePredecessorStatus in a step that polls one finished
\* job and finds it removed, for a job that is neither a service nor a
\* successor with predecessors on record
RootBranchCalls ==
    IF /\ pc = "poll" /\ pc' # "poll" /\ Cardinality(lastFinished') = 1
       /\ failure' # "NoSuchJobException:1044"
    THEN {n \in lastFinished' :
             /\ n[4] \in {"removed", "ghost"}
             /\ n[2] \notin DOMAIN serviceJobStoreIDToPredecessorJob
             /\ n[2] \notin DOMAIN successorJobStoreIDToPredecessorJobs}
    ELSE {}

\* C28: when _updatePredecessorStatus is called for a job that is neither a
\* service nor a key of successorJobStoreIDToPredecessorJobs, the job is
\* the root job, no other job is issued, and updatedJobs,
\* successorJobStoreIDToPredecessorJobs and successorCounts are empty: none
\* of the three assertions of that branch ever fails.
C28_RootBranch ==
    /\ [](failure \notin {"AssertionError:1218", "AssertionError:1219",
                          "AssertionError:1220"})
    /\ [][\A n \in RootBranchCalls :
             /\ n[2] = RootJob
             /\ updatedJobs = {}
             /\ DOMAIN successorJobStoreIDToPredecessorJobs = {}
             /\ DOMAIN successorCounts = {}
             /\ jobsIssued' = 0
             /\ failure' = "none"]_vars

\* the root job has been run for the last time and is gone
C28_Witness ==
    /\ pc = "health"
    /\ \E n \in lastFinished : n[2] = RootJob /\ n[4] = "removed"
    /\ RootJob \notin DOMAIN jobStore
    /\ totalFailedJobs = {}

\* the calls of _updatePredecessorStatus in a step that polls one finished
\* job and finds it removed, for a successor with predecessors on record
PredecessorBranchCalls ==
    IF /\ pc = "poll" /\ pc' # "poll" /\ Cardinality(lastFinished') = 1
       /\ failure' # "NoSuchJobException:1044"
    THEN {n \in lastFinished' :
             /\ n[4] \in {"removed", "ghost"}
             /\ n[2] \notin DOMAIN serviceJobStoreIDToPredecessorJob
             /\ n[2] \in DOMAIN successorJobStoreIDToPredecessorJobs}
    ELSE {}

Occurrences(x, seq) == Cardinality({i \in DOMAIN seq : seq[i] = x})

\* C29: when a finished non-service job is removed, the count of pending
\* successors of each of its predecessors P goes down by one; P is put in
\* updatedJobs as (P, 0), loses its key in successorCounts and has the top
\* group of its stack popped if the count reaches zero, and none of the
\* three happens if the count stays above zero.
C29_PredecessorCounts ==
    [][\A n \in PredecessorBranchCalls :
          LET predecessors == successorJobStoreIDToPredecessorJobs[n[2]]
          IN /\ failure' = "none"
             /\ n[2] \notin DOMAIN successorJobStoreIDToPredecessorJobs'
             /\ \A P \in DOMAIN successorCounts :
                   LET count == successorCounts[P] - Occurrences(P, predecessors)
                   IN /\ count >= 0
                      /\ IF count > 0
                         THEN /\ P \in DOMAIN successorCounts'
                              /\ successorCounts'[P] = count
                              /\ mem'[P].stack = mem[P].stack
                              /\ (<<P, 0>> \in updatedJobs') = (<<P, 0>> \in updatedJobs)
                         ELSE /\ P \notin DOMAIN successorCounts'
                              /\ mem'[P].stack = Front(mem[P].stack)
                              /\ <<P, 0>> \in updatedJobs'
             /\ \A i \in DOMAIN predecessors : predecessors[i] \in DOMAIN successorCounts
             /\ updatedJobs' \ updatedJobs \subseteq
                   {<<predecessors[i], 0>> : i \in DOMAIN predecessors}]_vars

\* a successor has been removed and one of its predecessors still waits for
\* another successor
C29_Witness ==
    /\ pc = "health"
    /\ \E n \in lastFinished : \E P \in DOMAIN successorCounts :
          /\ n[4] = "removed"
          /\ successorCounts[P] = 1
          /\ Len(mem[P].stack) = 1
          /\ Cardinality({i \in DOMAIN mem[P].stack[1] :
                             mem[P].stack[1][i][1] = n[2]}) = 1
          /\ <<P, 0>> \notin updatedJobs

\* the service jobs that leave serviceJobStoreIDToPredecessorJob in a step
ServicesRemoved ==
    (DOMAIN serviceJobStoreIDToPredecessorJob) \ (DOMAIN serviceJobStoreIDToPredecessorJob')

\* the service jobs that a step finds removed from the job store or declares
\* totally failed
ServicesEnded ==
    {s \in DOMAIN serviceJobStoreIDToPredecessorJob :
        \/ s \in totalFailedJobs' \ totalFailedJobs
        \/ /\ pc = "poll"
           /\ failure' # "NoSuchJobException:1044"
           /\ \E n \in lastFinished' : n[2] = s /\ n[4] \in {"removed", "ghost"}}

\* a service job is on record with its owner exactly if the owner has it among
\* its issued services, and no owner is on record without a service
ServiceIndicesAgree ==
    /\ \A s \in DOMAIN serviceJobStoreIDToPredecessorJob :
          LET owner == serviceJobStoreIDToPredecessorJob[s]
          IN owner \in DOMAIN servicesIssued /\ s \in DOMAIN servicesIssued[owner]
    /\ \A owner \in DOMAIN servicesIssued :
          /\ DOMAIN servicesIssued[owner] # {}
          /\ \A s \in DOMAIN servicesIssued[owner] :
                /\ s \in DOMAIN serviceJobStoreIDToPredecessorJob
                /\ serviceJobStoreIDToPredecessorJob[s] = owner

\* C30: a service job that finishes or totally fails leaves
\* serviceJobStoreIDToPredecessorJob and servicesIssued of its owner; the
\* owner is put in updatedJobs as (owner, 0) and loses its key in
\* servicesIssued exactly when its last service leaves; the two indices
\* agree and servicesIssued holds no empty map between the steps of the loop.
C30_ServiceRemoval ==
    /\ [](failure = "none" => ServiceIndicesAgree)
    /\ [][failure' = "none" =>
             /\ ServicesRemoved = ServicesEnded
             /\ \A s \in ServicesRemoved :
                   LET owner == serviceJobStoreIDToPredecessorJob[s]
                       live == (DOMAIN servicesIssued[owner]) \ ServicesRemoved
                   IN IF live = {}
                      THEN /\ owner \notin DOMAIN servicesIssued'
                           /\ <<owner, 0>> \in updatedJobs'
                      ELSE /\ owner \in DOMAIN servicesIssued'
                           /\ DOMAIN servicesIssued'[owner] = live
                           /\ (<<owner, 0>> \in updatedJobs') = (<<owner, 0>> \in updatedJobs)]_vars

\* one of the two services of a job has ended and the other is still on
\* record
C30_Witness ==
    /\ pc \in {"process", "exit", "health"}
    /\ \E owner \in DOMAIN servicesIssued : \E s \in totalFailedJobs :
          /\ DOMAIN servicesIssued[owner] # {}
          /\ s \notin DOMAIN servicesIssued[owner]
          /\ s \notin DOMAIN serviceJobStoreIDToPredecessorJob
          /\ \E i \in DOMAIN mem[owner].services : \E k \in DOMAIN mem[owner].services[i] :
                mem[owner].services[i][k][1] = s

\* the service jobs that a step declares totally failed
NewlyFailedServices ==
    (totalFailedJobs' \ totalFailedJobs) \cap DOMAIN serviceJobStoreIDToPredecessorJob

\* the thread of the service manager waits for the start flag of service s
WaitsFor(s) ==
    /\ smPc = "wait"
    /\ mem[smJob].services[smGroup][smIdx][1] = s

\* in the workflows of the model the root job is the one with services
JobsWithServices == {RootJob}

\* C31: when a service job totally fails, the leader deletes its start flag
\* and the terminate and error flags of the services of the owner that are
\* still issued, and puts the owner in hasFailedSuccessors; the thread of
\* the service manager does not wait for ever for the start flag of a
\* totally failed service; an owner with a failed service that the service
\* manager holds is handed back; and a job in hasFailedSuccessors that is
\* processed has no successor scheduled and no service started.
C31_FailedServiceUnblocks ==
    /\ [][\A s \in NewlyFailedServices :
             LET owner == serviceJobStoreIDToPredecessorJob[s]
             IN /\ StartFlag(s) \notin files'
                /\ owner \in hasFailedSuccessors'
                /\ owner \in DOMAIN servicesIssued' =>
                      \A t \in DOMAIN servicesIssued'[owner] :
                         /\ t # s
                         /\ TerminateFlag(t) \notin files'
                         /\ ErrorFlag(t) \notin files']_vars
    /\ [][pc = "process" =>
             \A u \in localUpdatedJobs \ localUpdatedJobs' :
                u[1] \in hasFailedSuccessors =>
                   /\ ScheduledSuccessors = {}
                   /\ u[1] \in DOMAIN successorCounts' => u[1] \in DOMAIN successorCounts
                   /\ jobWrappersWithServicesBeingStarted' = jobWrappersWithServicesBeingStarted]_vars
    /\ \A s \in ServiceJobs :
          (s \in totalFailedJobs /\ WaitsFor(s)) ~> ~WaitsFor(s)
    /\ \A owner \in JobsWithServices :
          (owner \in jobWrappersWithServicesBeingStarted /\ owner \in hasFailedSuccessors)
             ~> (owner \notin jobWrappersWithServicesBeingStarted \/ AfterTheLoop)

\* a service job has totally failed while the service manager was waiting
\* for its start flag
C31_Witness ==
    /\ InLoop
    /\ \E s \in ServiceJobs :
          /\ s \in totalFailedJobs
          /\ WaitsFor(s)
          /\ StartFlag(s) \notin files
          /\ RootJob \in jobWrappersWithServicesBeingStarted
          /\ RootJob \in hasFailedSuccessors

\* the entries of the snapshot that a step of the loop over the updated jobs
\* takes while the service manager holds their job
SkippedEntries ==
    IF pc = "process"
    THEN {u \in localUpdatedJobs \ localUpdatedJobs' :
             u[1] \in jobWrappersWithServicesBeingStarted}
    ELSE {}

\* the jobs that a step takes back from the service manager
TakenBack ==
    jobWrappersWithServicesBeingStarted \ jobWrappersWithServicesBeingStarted'

\* C32: a job taken from the updated jobs while the service manager holds it
\* is skipped: nothing is issued, no job is marked failed and no index, job
\* record or flag changes; the job is not lost: the service manager hands it
\* back, and the step that takes it back puts it in updatedJobs with result
\* 0 and clears its services list.
C32_SkippedWhileBeingStarted ==
    /\ [][SkippedEntries # {} =>
             /\ UNCHANGED <<jobStore, files, mem, toilVars, leaderVars, bsVars, smVars>>
             /\ failure' = "none"]_vars
    /\ [][\A j \in TakenBack :
             /\ pc = "collect"
             /\ <<j, 0>> \in updatedJobs'
             /\ mem'[j].services = <<>>]_vars
    /\ \A j \in JobsWithServices :
          (j \in jobWrappersWithServicesBeingStarted)
             ~> (j \notin jobWrappersWithServicesBeingStarted \/ AfterTheLoop)

\* the job whose only service failed while it was being started has been
\* skipped: the service manager still holds it and it is in no set of
\* updated jobs
C32_Witness ==
    /\ pc \in {"process", "exit"}
    /\ \E j \in jobWrappersWithServicesBeingStarted :
          /\ j \in hasFailedSuccessors
          /\ j \notin DOMAIN servicesIssued
          /\ \A u \in updatedJobs \cup localUpdatedJobs : u[1] # j

\* the step of the loop that takes a completion event from the batch system
\* whose batch job ID the leader does not track
LateEvent ==
    /\ pc = "poll"
    /\ pc' # "poll"
    /\ bsUpdated # <<>>
    /\ Head(bsUpdated)[1] \notin DOMAIN jobBatchSystemIDToIssuedJob

\* the batch job IDs for which a step calls processFinishedJob
ProcessedBatchJobs ==
    IF pc = "poll" /\ pc' # "poll" THEN {n[1] : n \in lastFinished'} ELSE {}

\* C33: a completion event for a batch job ID that is not tracked changes no
\* state of the leader: no index, no counter, no job record; a call of
\* processFinishedJob is for a tracked ID and ends its tracking, and an ID
\* is never tracked again, so that a batch job that the rescue killed and the
\* batch system reports afterwards is processed once.
C33_LateEventIgnored ==
    /\ [][LateEvent =>
             /\ UNCHANGED <<jobStore, files, mem, toilVars, leaderVars, smVars,
                            localUpdatedJobs, failure>>
             /\ pc' = "health"
             /\ ProcessedBatchJobs = {}]_vars
    /\ [][/\ \A b \in ProcessedBatchJobs :
                /\ b \in DOMAIN jobBatchSystemIDToIssuedJob
                /\ b \notin DOMAIN jobBatchSystemIDToIssuedJob'
          /\ \A b \in (DOMAIN jobBatchSystemIDToIssuedJob')
                         \ DOMAIN jobBatchSystemIDToIssuedJob :
                b >= nextBatchID /\ b < nextBatchID']_vars
    /\ [](\A b \in DOMAIN jobBatchSystemIDToIssuedJob : b < nextBatchID)

\* the rescue has killed a batch job and processed it, and the batch system
\* reports the same batch job
C33_Witness ==
    /\ pc = "health"
    /\ \E n \in lastFinished : \E i \in DOMAIN bsUpdated :
          /\ bsUpdated[i][1] = n[1]
          /\ n[1] \notin DOMAIN jobBatchSystemIDToIssuedJob
          /\ n[1] \notin DOMAIN bsJobs

\* what killJobs does to the state S of the leader for the set K of tracked
\* batch job IDs, T being the state it returns
KillJobsEffect(S, K, T) ==
    /\ T.err = "none"
    /\ T.killed = K
    /\ (DOMAIN T.bs) \cap K = {}
    /\ (DOMAIN T.issued) = (DOMAIN S.issued) \ K
    /\ T.jobsIssued = S.jobsIssued - Cardinality(K)
    /\ {n[1] : n \in T.finished} = K
    /\ Cardinality(T.finished) = Cardinality(K)
    /\ \A n \in T.finished : n[3] = 1
    /\ \A b \in K :
          LET j == S.issued[b].jobStoreID
          IN j \in DOMAIN S.store =>
                /\ j \in DOMAIN T.store
                /\ T.store[j] = setupJobAfterFailure(S.store[j])
                /\ S.store[j].remainingRetryCount > 0 =>
                      T.store[j].remainingRetryCount = S.store[j].remainingRetryCount - 1
                /\ T.mem[j] = T.store[j]
                /\ \E u \in T.updated : u[1] = j /\ u[2] # 0
    /\ K = {} => T = S

\* C34: killJobs tells the batch system to kill every listed job and calls
\* processFinishedJob(id, 1) once for each: afterwards no listed ID is
\* tracked, every listed job whose record exists has a retry less (if it
\* had one left) and is in updatedJobs with a nonzero result, and for an
\* empty list nothing changes; for every set of tracked batch jobs when the
\* rescue can run, and in the steps of the rescue.
C34_KillJobs ==
    /\ []((pc = "poll" /\ bsUpdated = <<>>) =>
            \A K \in SUBSET DOMAIN jobBatchSystemIDToIssuedJob :
               \A jobsToKill \in Orders(K) : \A T \in killJobs(Here, jobsToKill) :
                  KillJobsEffect(Here, K, T))
    /\ [][(pc = "poll" /\ pc' # "poll" /\ lastScan'.ran) =>
             \A n \in lastFinished' :
                /\ n[3] = 1
                /\ n[1] \notin DOMAIN jobBatchSystemIDToIssuedJob'
                /\ n[1] \notin DOMAIN bsJobs'
                /\ n[2] \in DOMAIN jobStore =>
                      /\ <<n[2], 1>> \in updatedJobs'
                      /\ jobStore[n[2]].remainingRetryCount > 0 =>
                            jobStore'[n[2]].remainingRetryCount =
                               jobStore[n[2]].remainingRetryCount - 1]_vars

\* the rescue has killed two batch jobs at once, the record of one of them
\* exists
C34_Witness ==
    /\ pc = "health"
    /\ lastScan.ran
    /\ Cardinality(lastFinished) = 2
    /\ \E n \in lastFinished :
          /\ n[4] = "reloaded"
          /\ <<n[2], 1>> \in updatedJobs
          /\ jobStore[n[2]].remainingRetryCount = MaxRetry - 1

\* the notes of the jobs that a step of the loop reloads from the job store
\* after their batch job has finished
ReloadedNotes ==
    IF pc = "poll" /\ pc' # "poll"
    THEN {n \in lastFinished' : n[4] = "reloaded"}
    ELSE {}

\* the entries with result 0 that a step of the loop over the updated jobs
\* takes for a job that is not in hasFailedSuccessors, that the service
\* manager does not hold and that has services or successors left
ExaminedAsReady ==
    IF pc = "process"
    THEN {u \in localUpdatedJobs \ localUpdatedJobs' :
             /\ u[2] = 0
             /\ u[1] \notin hasFailedSuccessors
             /\ u[1] \notin jobWrappersWithServicesBeingStarted
             /\ ~mem[u[1]].command
             /\ (mem[u[1]].services # <<>> \/ mem[u[1]].stack # <<>>)}
    ELSE {}

\* C35: a job whose batch job finished with result 0 and whose record still
\* exists is not in hasFailedSuccessors afterwards and is in updatedJobs
\* with result 0; with a nonzero result its membership of
\* hasFailedSuccessors is as before; and a job with result 0 that is not in
\* hasFailedSuccessors when it is examined is not failed: its services or
\* successors are scheduled (or, its successors having all failed before,
\* it is marked and queued again).
C35_FlagDroppedOnSuccess ==
    /\ [][\A n \in ReloadedNotes :
             /\ <<n[2], n[3]>> \in updatedJobs'
             /\ n[3] = 0 => n[2] \notin hasFailedSuccessors'
             /\ n[3] # 0 => (n[2] \in hasFailedSuccessors' <=> n[2] \in hasFailedSuccessors)]_vars
    /\ [][\A u \in ExaminedAsReady :
             /\ totalFailedJobs' = totalFailedJobs
             /\ failure' = "none" =>
                   \/ u[1] \in DOMAIN servicesIssued'
                   \/ u[1] \in DOMAIN successorCounts'
                   \/ /\ failedSuccessors # {}
                      /\ u[1] \in hasFailedSuccessors'
                      /\ <<u[1], 0>> \in updatedJobs']_vars

\* a checkpoint job whose child totally failed has been restarted, its batch
\* job has finished with result 0 and it has left hasFailedSuccessors
C35_Witness ==
    /\ pc = "health"
    /\ \E n \in lastFinished :
          /\ n[4] = "reloaded"
          /\ n[3] = 0
          /\ mem[n[2]].checkpoint
          /\ totalFailedJobs # {}
          /\ n[2] \notin totalFailedJobs
          /\ n[2] \notin hasFailedSuccessors
          /\ <<n[2], 0>> \in updatedJobs

\* the jobs other than service jobs that a step marks as totally failed
NewlyFailedJobs == NewlyFailed \ ServiceJobs

\* the descendants that a step adds to failedSuccessors
NewlyTainted == failedSuccessors' \ failedSuccessors

\* the number of times the job p is listed as a predecessor under the keys K
\* of successorJobStoreIDToPredecessorJobs
RECURSIVE ListedUnder(_, _)
ListedUnder(p, K) ==
    IF K = {} THEN 0
    ELSE LET s == CHOOSE x \in K : TRUE
         IN Occurrences(p, successorJobStoreIDToPredecessorJobs[s]) + ListedUnder(p, K \ {s})

\* C36: the walk from a totally failed job returns no descendant that is
\* already in failedSuccessors, and failedSuccessors never loses an element,
\* so that a descendant is newly tainted at most once in a run; the key of a
\* newly tainted descendant in successorJobStoreIDToPredecessorJobs is
\* removed, each predecessor listed under it is put in hasFailedSuccessors
\* and its count goes down by the number of times it is listed (under these
\* keys and under the key of the failed job itself); the predecessor is put
\* in updatedJobs and loses its count exactly when the count reaches zero;
\* the decrement finds its key and does not go below zero.
C36_FailureWalk ==
    /\ [](failure \notin {"KeyError:1175", "AssertionError:1182"})
    /\ [][failedSuccessors \subseteq failedSuccessors']_vars
    /\ [][\A f \in NewlyFailedJobs :
             \A found \in getSuccessors(mem[f], failedSuccessors, jobStore) :
             LET keys == (found.successors \cup {f})
                            \cap DOMAIN successorJobStoreIDToPredecessorJobs
             IN /\ found.successors \cap failedSuccessors = {}
                /\ found.err = "none" /\ failure' = "none" =>
                      /\ NewlyTainted = found.successors
                      /\ \A s \in keys :
                            /\ s \notin DOMAIN successorJobStoreIDToPredecessorJobs'
                            /\ \A i \in DOMAIN successorJobStoreIDToPredecessorJobs[s] :
                                  LET q == successorJobStoreIDToPredecessorJobs[s][i]
                                      left == successorCounts[q] - ListedUnder(q, keys)
                                  IN /\ q \in DOMAIN successorCounts
                                     /\ q \in hasFailedSuccessors'
                                     /\ left >= 0
                                     /\ left = 0 =>
                                           /\ q \notin DOMAIN successorCounts'
                                           /\ <<q, 0>> \in updatedJobs'
                                     /\ left > 0 =>
                                           /\ q \in DOMAIN successorCounts'
                                           /\ successorCounts'[q] = left
                                           /\ <<q, 0>> \in updatedJobs' =>
                                                 <<q, 0>> \in updatedJobs]_vars

\* two jobs have totally failed one after the other, a successor of both was
\* tainted by the walk from the first and is still in the job store
C36_Witness ==
    /\ InLoop
    /\ \E f \in totalFailedJobs : \E g \in totalFailedJobs \ {f} :
          \E s \in failedSuccessors \cap DOMAIN jobStore :
             /\ s \in SeqToSet(StackIDs(mem[f].stack))
             /\ s \in SeqToSet(StackIDs(mem[g].stack))
             /\ s \notin DOMAIN successorJobStoreIDToPredecessorJobs

\* the number of keys of successorJobStoreIDToPredecessorJobs under which
\* the job j is listed
PendingSuccessors(j) ==
    Cardinality({s \in DOMAIN successorJobStoreIDToPredecessorJobs :
                    \E i \in DOMAIN successorJobStoreIDToPredecessorJobs[s] :
                       successorJobStoreIDToPredecessorJobs[s][i] = j})

\* the count of the job j in successorCounts, 0 if it has none
CountOf(j) == IF j \in DOMAIN successorCounts THEN successorCounts[j] ELSE 0

\* the two indices agree on every job
IndicesAgree ==
    \A j \in (DOMAIN mem) \cup (DOMAIN jobStore) \cup (DOMAIN successorCounts) :
       CountOf(j) = PendingSuccessors(j)

\* C38: once the state is reconstructed, and so between the iterations of
\* the loop, the count of every job in successorCounts (0 if it has none) is
\* the number of successors under which successorJobStoreIDToPredecessorJobs
\* lists the job; the indices change only in the steps of the
\* reconstruction, of the loop over the updated jobs (scheduling, failure
\* walk) and of the processing of finished batch jobs
\* (_updatePredecessorStatus), and no step changes a count alone.
C38_IndicesAgree ==
    /\ [](pc \notin {"build", "failed"} => IndicesAgree)
    /\ [][(successorCounts' # successorCounts
             \/ successorJobStoreIDToPredecessorJobs' # successorJobStoreIDToPredecessorJobs)
             => /\ pc \in {"build", "process", "poll"}
                /\ pc # "build" =>
                      successorJobStoreIDToPredecessorJobs'
                         # successorJobStoreIDToPredecessorJobs]_vars

\* between two iterations, after a job has totally failed, a job waits for
\* two successors
C38_Witness ==
    /\ pc = "top"
    /\ totalFailedJobs # {}
    /\ \E j \in DOMAIN successorCounts :
          /\ successorCounts[j] = 2
          /\ PendingSuccessors(j) = 2

\* the batch job IDs under which the job j is tracked as issued
TrackedAs(j) ==
    {b \in DOMAIN jobBatchSystemIDToIssuedJob :
        jobBatchSystemIDToIssuedJob[b].jobStoreID = j}

\* the batch job IDs that a step stops tracking
Untracked ==
    (DOMAIN jobBatchSystemIDToIssuedJob) \ DOMAIN jobBatchSystemIDToIssuedJob'

\* C39: no job is tracked as issued under two batch job IDs; a step that
\* issues a job (an ordinary job, a service job, a job run again to be
\* cleaned up) finds it untracked, and an entry leaves the map only in a
\* call of processFinishedJob for its batch job ID.
C39_IssuedOnce ==
    /\ [](\A b \in DOMAIN jobBatchSystemIDToIssuedJob :
             TrackedAs(jobBatchSystemIDToIssuedJob[b].jobStoreID) = {b})
    /\ [][\A j \in NewlyIssued : TrackedAs(j) = {}]_vars
    /\ [][Untracked \subseteq ProcessedBatchJobs]_vars

\* in a workflow of two jobs, job 2 still has its command to run and is
\* tracked under the second batch job ID alone: its first batch job failed
\* and was processed, and it was issued again
C39_Witness ==
    /\ InLoop
    /\ DOMAIN jobStore = {RootJob, 2}
    /\ jobStore[2].command
    /\ DOMAIN jobBatchSystemIDToIssuedJob = {2}
    /\ TrackedAs(2) = {2}

\* the jobs that a step puts in updatedJobs
NewlyUpdated == {u[1] : u \in updatedJobs' \ updatedJobs}

\* C40: a job that is in totalFailedJobs, from the step that puts it there
\* on, is not issued to the batch system and is not put in updatedJobs (an
\* entry put there before the job failed may still be waiting).
C40_FailedForGood ==
    [][InLoop =>
          \A j \in totalFailedJobs \cup totalFailedJobs' :
             /\ j \notin NewlyIssued
             /\ j \notin NewlyUpdated
             /\ TrackedAs(j) = {}
             /\ InLoop' => j \in totalFailedJobs']_vars

\* a job has totally failed and the run goes on: another job, which the
\* failure has not tainted, is running in the batch system
C40_Witness ==
    /\ InLoop
    /\ \E j \in totalFailedJobs \cap DOMAIN jobStore :
          /\ jobStore[j].remainingRetryCount = 0
          /\ TrackedAs(j) = {}
          /\ \A u \in updatedJobs \cup localUpdatedJobs : u[1] # j
          /\ \E b \in DOMAIN jobBatchSystemIDToIssuedJob :
                /\ b \in DOMAIN bsJobs
                /\ jobBatchSystemIDToIssuedJob[b].jobStoreID \notin failedSuccessors
                /\ jobBatchSystemIDToIssuedJob[b].jobStoreID \notin ServiceJobs

\* the errors with which the load of a job ends the run when jobStore.exists
\* has answered True for a job that is gone
StaleReadErrors == {"NoSuchJobException:1044", "NoSuchJobException:1115"}

\* the errors that end the run after a fault the premises of C37 leave
\* out: the stats and logging thread or the thread of the cluster scaler has
\* died, the job store has answered that a job exists that is gone
ErrorsOutsideThePremises == {"RuntimeError:124", "RuntimeError:881"} \cup StaleReadErrors

\* C37 as stated: when every batch job eventually finishes and every started
\* service eventually deletes its start flag, innerLoop eventually reaches
\* its exit criterion (runs that end with the error of a fault outside
\* these premises are left aside).
C37_LoopReachesExit ==
    <>(\/ pc = "exited"
       \/ pc = "finally" /\ failure \in ErrorsOutsideThePremises)

====
